---- MODULE Spec2Model ----
(***************************************************************************)
(* Model of the teaching bytecode compiler (lib/bytecode/compiler.ts):     *)
(* compile / compileStatement / compileBlock / compileExpression, the      *)
(* label counter, the break-target stack and the instruction factory.      *)
(*                                                                         *)
(* An AST node is a record with a "type" field, as Babel produces it.      *)
(* A missing child (null / undefined) is the node NULL.                    *)
(* The module-level state (labelCounter, breakTargetStack), the shared     *)
(* diagnostics array and the "an exception is propagating" flag are        *)
(* threaded through the recursive operators as a record env.               *)
(*                                                                         *)
(* Three specifications: Spec, a client of compile() and the two resets;   *)
(* ParserSpec, parseSource alone; VisualizerSpec, the BytecodeVisualizer   *)
(* component that parses every edit and compiles what it shows.            *)
(***************************************************************************)
EXTENDS Integers, Sequences, FiniteSets, TLC

VARIABLES
    statements,        \* the StatementBlock[] handed to compile()
    labelCounter,      \* module variable labelCounter
    breakTargetStack,  \* module variable breakTargetStack
    outcome,           \* "none" | "returned" | "threw" : how the last compile() ended
    result,            \* the CompileResult of the last compile() ([lines, diagnostics])
    entry,             \* labelCounter / breakTargetStack at entry of the last compile()
    fresh,             \* which resets were called since the last compile()
    baseline,          \* outcome and result of the first compile() that followed both resets
    source,            \* the visualizer's state "source": the text in the editor
    parseStatus        \* the visualizer's state "parseStatus"

vars == <<statements, labelCounter, breakTargetStack, outcome, result, entry, fresh, baseline,
          source, parseStatus>>

----------------------------------------------------------------------------
(* Bounds of the model *)

\* compile() is not started again once the label counter has passed this value
MaxLabelCounter == 3

----------------------------------------------------------------------------
(* AST nodes *)

NULL == [type |-> "null"]

Num(v) == [type |-> "NumericLiteral", value |-> v]
Str(v) == [type |-> "StringLiteral", value |-> v]
Bool(v) == [type |-> "BooleanLiteral", value |-> v]
NullLit == [type |-> "NullLiteral"]
Id(n) == [type |-> "Identifier", name |-> n]
Other(t) == [type |-> t]
Arr(elems) == [type |-> "ArrayExpression", elements |-> elems]
Spread(a) == [type |-> "SpreadElement", argument |-> a]
Bin(op, l, r) == [type |-> "BinaryExpression", operator |-> op, left |-> l, right |-> r]
Assign(op, l, r) == [type |-> "AssignmentExpression", operator |-> op, left |-> l, right |-> r]
Call(c, args) == [type |-> "CallExpression", callee |-> c, arguments |-> args]
Member(o, p, c) == [type |-> "MemberExpression", object |-> o, property |-> p, computed |-> c]
Update(op, pre, a) == [type |-> "UpdateExpression", operator |-> op, prefix |-> pre, argument |-> a]
Unary(op, a) == [type |-> "UnaryExpression", operator |-> op, argument |-> a]
Paren(e) == [type |-> "ParenthesizedExpression", expression |-> e]
TSAs(e) == [type |-> "TSAsExpression", expression |-> e]
Logical(op, l, r) == [type |-> "LogicalExpression", operator |-> op, left |-> l, right |-> r]
Obj(props) == [type |-> "ObjectExpression", properties |-> props]
Prop(k, v, c) == [type |-> "ObjectProperty", key |-> k, value |-> v, computed |-> c]
Method(k) == [type |-> "ObjectMethod", key |-> k]
\* a quasi is represented by its cooked string
Template(qs, es) == [type |-> "TemplateLiteral", quasis |-> qs, expressions |-> es]

Declarator(i, init) == [id |-> i, init |-> init]
VarDecl(ds) == [type |-> "VariableDeclaration", declarations |-> ds]
ExprStmt(e) == [type |-> "ExpressionStatement", expression |-> e]
Func(i, ps, b) == [type |-> "FunctionDeclaration", id |-> i, params |-> ps, body |-> b]
Block(b) == [type |-> "BlockStatement", body |-> b]
If(t, c, a) == [type |-> "IfStatement", test |-> t, consequent |-> c, alternate |-> a]
While(t, b) == [type |-> "WhileStatement", test |-> t, body |-> b]
ForIn(l, r, b) == [type |-> "ForInStatement", left |-> l, right |-> r, body |-> b]
ForOf(l, r, b) == [type |-> "ForOfStatement", left |-> l, right |-> r, body |-> b]
SwitchCase(t, c) == [test |-> t, consequent |-> c]
Switch(d, cs) == [type |-> "SwitchStatement", discriminant |-> d, cases |-> cs]
Break == [type |-> "BreakStatement"]
Return(a) == [type |-> "ReturnStatement", argument |-> a]
ImportSpec(t, imp, loc) == [type |-> t, imported |-> imp, local |-> loc]
Import(specs, src) == [type |-> "ImportDeclaration", specifiers |-> specs, source |-> src]
ExportSpec(t, loc, exp) == [type |-> t, local |-> loc, exported |-> exp]
ExportNamed(d, specs) == [type |-> "ExportNamedDeclaration", declaration |-> d, specifiers |-> specs]

----------------------------------------------------------------------------
(* Label counter, break-target stack, diagnostics *)

\* the state a compile() call works on
Env(diags, lc, bts, thrown) ==
    [diagnostics |-> diags, labelCounter |-> lc, breakTargetStack |-> bts, thrown |-> thrown]

\* generateLabel with a suffix that starts again from 0 after 1
generateLabel_Wraps(prefix, env) ==
    [label |-> prefix \o "_" \o ToString(env.labelCounter % 2),
     env |-> [env EXCEPT !.labelCounter = @ + 1]]

\* generateLabel without the increment: every label of a prefix gets the same suffix
generateLabel_Reuse(prefix, env) ==
    [label |-> prefix \o "_" \o ToString(env.labelCounter), env |-> env]

\* `${prefix}_${labelCounter++}` : the label and the state after the increment
generateLabel(prefix, env) ==
    [label |-> prefix \o "_" \o ToString(env.labelCounter),
     env |-> IF env.thrown THEN env
             ELSE [env EXCEPT !.labelCounter = @ + 1]]

\* a compiler that emits UNSUPPORTED without recording the diagnostic
pushDiagnostic_Silent(env, statementId, message) == env

\* diagnostics.push({ statementId, message })
pushDiagnostic(env, statementId, message) ==
    IF env.thrown THEN env
    ELSE [env EXCEPT !.diagnostics = Append(@, [statementId |-> statementId, message |-> message])]

\* a switch that pushes its end label twice
pushBreakTarget_Twice(env, label) ==
    IF env.thrown THEN env
    ELSE [env EXCEPT !.breakTargetStack = Append(Append(@, label), label)]

\* breakTargetStack.push(endLabel)
pushBreakTarget(env, label) ==
    IF env.thrown THEN env
    ELSE [env EXCEPT !.breakTargetStack = Append(@, label)]

\* a switch that leaves its end label on the break-target stack
popBreakTarget_Keeps(env) == env

\* breakTargetStack.pop()
popBreakTarget(env) ==
    IF env.thrown \/ env.breakTargetStack = <<>> THEN env
    ELSE [env EXCEPT !.breakTargetStack = SubSeq(@, 1, Len(@) - 1)]

\* reading a property of undefined: a TypeError starts to propagate
throwTypeError(env) == [env EXCEPT !.thrown = TRUE]

----------------------------------------------------------------------------
(* Instruction factory and narration table *)

\* args[i] of a JavaScript array (0-based i), "undefined" when absent
Arg(args, i) == IF i + 1 <= Len(args) THEN args[i + 1] ELSE "undefined"

\* a narrations table that was not extended with the iterator and spread opcodes
narrationOps_Stale ==
    {"PUSH_CONST", "LOAD_VAR", "STORE_VAR", "DECLARE_VAR", "ADD", "SUB", "MUL", "DIV", "MOD",
     "EQ", "NEQ", "LT", "GT", "LTE", "GTE", "POP", "CALL", "CALL_METHOD", "GET_PROP",
     "UNSUPPORTED", "NOOP", "PUSH_UNDEFINED", "PUSH_NULL",
     "LABEL", "JUMP", "JUMP_IF_FALSE", "GET_KEYS", "ITER_NEXT", "ITER_HAS_NEXT",
     "INCREMENT", "DECREMENT", "CREATE_ARRAY", "CREATE_OBJECT", "CONCAT_STRINGS", "TO_STRING",
     "DUP", "JUMP_IF_TRUE", "IMPORT", "IMPORT_AS", "IMPORT_DEFAULT", "IMPORT_NAMESPACE",
     "EXPORT", "EXPORT_AS", "DECLARE_FUNC", "PARAM", "RETURN", "RETURN_UNDEFINED"}

\* the keys of the narrations table
narrationOps ==
    {"PUSH_CONST", "LOAD_VAR", "STORE_VAR", "DECLARE_VAR", "ADD", "SUB", "MUL", "DIV", "MOD",
     "EQ", "NEQ", "LT", "GT", "LTE", "GTE", "POP", "CALL", "CALL_METHOD", "GET_PROP",
     "UNSUPPORTED", "NOOP", "PUSH_UNDEFINED", "PUSH_NULL",
     "LABEL", "JUMP", "JUMP_IF_FALSE",
     "GET_KEYS", "GET_ITERATOR", "ITER_NEXT", "ITER_HAS_NEXT",
     "INCREMENT", "DECREMENT",
     "CREATE_ARRAY", "SPREAD",
     "CREATE_OBJECT", "SET_PROP", "GET_COMPUTED_PROP", "SET_COMPUTED_PROP",
     "CONCAT_STRINGS", "TO_STRING",
     "LOGICAL_AND", "LOGICAL_OR", "NULLISH_COALESCE",
     "DUP", "JUMP_IF_TRUE",
     "IMPORT", "IMPORT_AS", "IMPORT_DEFAULT", "IMPORT_NAMESPACE",
     "EXPORT", "EXPORT_AS",
     "DECLARE_FUNC", "PARAM", "RETURN", "RETURN_UNDEFINED"}

\* narrations[op](args), for op in narrationOps
narrations(op, args) ==
    CASE op = "PUSH_CONST" -> "Push the constant value " \o Arg(args, 0) \o " onto the stack."
      [] op = "LOAD_VAR" -> "Load the value of '" \o Arg(args, 0) \o "' and push it onto the stack."
      [] op = "STORE_VAR" -> "Pop the top of the stack and store it in the variable named '" \o Arg(args, 0) \o "'."
      [] op = "DECLARE_VAR" -> "Declare a new variable named '" \o Arg(args, 0) \o "'."
      [] op = "ADD" -> "Pop the top two values, add them, and push the result."
      [] op = "SUB" -> "Pop the top two values, subtract the second from the first, and push the result."
      [] op = "MUL" -> "Pop the top two values, multiply them, and push the result."
      [] op = "DIV" -> "Pop the top two values, divide the first by the second, and push the result."
      [] op = "MOD" -> "Pop the top two values, compute the remainder, and push the result."
      [] op = "EQ" -> "Pop the top two values, compare for equality, and push the boolean result."
      [] op = "NEQ" -> "Pop the top two values, compare for inequality, and push the boolean result."
      [] op = "LT" -> "Pop the top two values, check if first is less than second, and push the result."
      [] op = "GT" -> "Pop the top two values, check if first is greater than second, and push the result."
      [] op = "LTE" -> "Pop the top two values, check if first is less than or equal, and push the result."
      [] op = "GTE" -> "Pop the top two values, check if first is greater than or equal, and push the result."
      [] op = "POP" -> "Pop and discard the top value from the stack."
      [] op = "CALL" -> "Call the function '" \o Arg(args, 0) \o "' with " \o Arg(args, 1) \o " argument(s)."
      [] op = "CALL_METHOD" -> "Call the method '" \o Arg(args, 1) \o "' on '" \o Arg(args, 0) \o "' with " \o Arg(args, 2) \o " argument(s)."
      [] op = "GET_PROP" -> "Get the property '" \o Arg(args, 0) \o "' from the object on top of the stack."
      [] op = "UNSUPPORTED" -> "This statement uses syntax not supported by the teaching VM yet: " \o Arg(args, 0) \o "."
      [] op = "NOOP" -> "No operation - this statement has no effect."
      [] op = "PUSH_UNDEFINED" -> "Push the value 'undefined' onto the stack."
      [] op = "PUSH_NULL" -> "Push the value 'null' onto the stack."
      [] op = "LABEL" -> "Mark position '" \o Arg(args, 0) \o "' as a jump target."
      [] op = "JUMP" -> "Jump to position '" \o Arg(args, 0) \o "'."
      [] op = "JUMP_IF_FALSE" -> "Pop the top value; if false, jump to '" \o Arg(args, 0) \o "'."
      [] op = "GET_KEYS" -> "Get the enumerable keys of the object on the stack and push an iterator."
      [] op = "GET_ITERATOR" -> "Get an iterator for the iterable on the stack."
      [] op = "ITER_NEXT" -> "Get the next value from the iterator and store it in '" \o Arg(args, 0) \o "'."
      [] op = "ITER_HAS_NEXT" -> "Check if the iterator has more items; push true or false."
      [] op = "INCREMENT" -> "Increment the value of '" \o Arg(args, 0) \o "' by 1."
      [] op = "DECREMENT" -> "Decrement the value of '" \o Arg(args, 0) \o "' by 1."
      [] op = "CREATE_ARRAY" -> "Create a new array with " \o Arg(args, 0) \o " element(s)."
      [] op = "SPREAD" -> "Spread the array on top of the stack into individual elements."
      [] op = "CREATE_OBJECT" -> "Create a new object with " \o Arg(args, 0) \o " properties."
      [] op = "SET_PROP" -> "Set the property '" \o Arg(args, 0) \o "' on the object."
      [] op = "GET_COMPUTED_PROP" -> "Get property using the key on top of the stack."
      [] op = "SET_COMPUTED_PROP" -> "Set property using the key and value on top of the stack."
      [] op = "CONCAT_STRINGS" -> "Concatenate " \o Arg(args, 0) \o " string(s) from the stack."
      [] op = "TO_STRING" -> "Convert the top value to a string."
      [] op = "LOGICAL_AND" -> "Evaluate left side; if falsy, skip to '" \o Arg(args, 0) \o "', otherwise continue with right side."
      [] op = "LOGICAL_OR" -> "Evaluate left side; if truthy, skip to '" \o Arg(args, 0) \o "', otherwise continue with right side."
      [] op = "NULLISH_COALESCE" -> "Evaluate left side; if null/undefined, continue with right side, otherwise skip to '" \o Arg(args, 0) \o "'."
      [] op = "DUP" -> "Duplicate the top value on the stack."
      [] op = "JUMP_IF_TRUE" -> "Pop the top value; if true, jump to '" \o Arg(args, 0) \o "'."
      [] op = "IMPORT" -> "Import '" \o Arg(args, 0) \o "' from module '" \o Arg(args, 1) \o "'."
      [] op = "IMPORT_AS" -> "Import '" \o Arg(args, 1) \o "' (originally '" \o Arg(args, 0) \o "') from module '" \o Arg(args, 2) \o "'."
      [] op = "IMPORT_DEFAULT" -> "Import the default export as '" \o Arg(args, 0) \o "' from module '" \o Arg(args, 1) \o "'."
      [] op = "IMPORT_NAMESPACE" -> "Import all exports from '" \o Arg(args, 1) \o "' as namespace '" \o Arg(args, 0) \o "'."
      [] op = "EXPORT" -> "Export '" \o Arg(args, 0) \o "' from this module."
      [] op = "EXPORT_AS" -> "Export '" \o Arg(args, 0) \o "' as '" \o Arg(args, 1) \o "' from this module."
      [] op = "DECLARE_FUNC" -> "Declare function '" \o Arg(args, 0) \o "' that takes " \o Arg(args, 1) \o " parameter(s)."
      [] op = "PARAM" -> "Bind parameter '" \o Arg(args, 0) \o "' (argument " \o Arg(args, 1) \o ") to a local variable."
      [] op = "RETURN" -> "Return the value on top of the stack to the caller."
      [] op = "RETURN_UNDEFINED" -> "Return undefined to the caller (implicit return)."

\* args.join(" ")
RECURSIVE join(_)
join(args) ==
    IF args = <<>> THEN ""
    ELSE IF Len(args) = 1 THEN args[1]
    ELSE args[1] \o " " \o join(Tail(args))

\* createInstruction that always appends the separator and the joined args
createInstruction_TrailingSeparator(statementId, op, args) ==
    [statementId |-> statementId,
     op |-> op,
     args |-> args,
     text |-> op \o " " \o join(args),
     english |-> IF op \in narrationOps THEN narrations(op, args)
                 ELSE "Execute " \o op \o " operation."]

createInstruction(statementId, op, args) ==
    [statementId |-> statementId,
     op |-> op,
     args |-> args,
     text |-> IF Len(args) > 0 THEN op \o " " \o join(args) ELSE op,
     english |-> IF op \in narrationOps THEN narrations(op, args)
                 ELSE "Execute " \o op \o " operation."]

\* createInstruction(statementId, op, ...args) as the compile functions push it:
\* text and english are functions of op and args alone, createInstruction
\* (applied by instructions below) adds them when compile() hands the lines out
emit(statementId, op, args) == [statementId |-> statementId, op |-> op, args |-> args]

\* the Instruction objects of the pushed lines
instructions(lines) ==
    [k \in 1..Len(lines) |-> createInstruction(lines[k].statementId, lines[k].op, lines[k].args)]

\* the result of a compile step: the instructions it returns and the state it leaves
R(lines, env) == [lines |-> lines, env |-> env]

----------------------------------------------------------------------------
(* Expression compiler *)

\* node.name when the node has one, else the falsy undefined
NameOf(node) == IF "name" \in DOMAIN node THEN node.name ELSE ""
Truthy(s) == s # ""

\* an opMap without the loose comparisons
opMap_StrictOnly ==
    [op \in {"+", "-", "*", "/", "%", "===", "!==", "<", ">", "<=", ">="} |->
        CASE op = "+" -> "ADD"
          [] op = "-" -> "SUB"
          [] op = "*" -> "MUL"
          [] op = "/" -> "DIV"
          [] op = "%" -> "MOD"
          [] op = "===" -> "EQ"
          [] op = "!==" -> "NEQ"
          [] op = "<" -> "LT"
          [] op = ">" -> "GT"
          [] op = "<=" -> "LTE"
          [] op = ">=" -> "GTE"]

\* the opMap table of the BinaryExpression case
opMap ==
    [op \in {"+", "-", "*", "/", "%", "==", "===", "!=", "!==", "<", ">", "<=", ">="} |->
        CASE op = "+" -> "ADD"
          [] op = "-" -> "SUB"
          [] op = "*" -> "MUL"
          [] op = "/" -> "DIV"
          [] op = "%" -> "MOD"
          [] op \in {"==", "==="} -> "EQ"
          [] op \in {"!=", "!=="} -> "NEQ"
          [] op = "<" -> "LT"
          [] op = ">" -> "GT"
          [] op = "<=" -> "LTE"
          [] op = ">=" -> "GTE"]

RECURSIVE compileExpression(_, _, _)
RECURSIVE compileArguments(_, _, _)
RECURSIVE compileElements(_, _, _)
RECURSIVE compileProperties(_, _, _)
RECURSIVE compileQuasis(_, _, _, _)

\* an argument loop that runs from the last argument to the first
compileArguments_LastFirst(args, statementId, env) ==
    IF args = <<>> THEN R(<<>>, env)
    ELSE LET rest == compileArguments(Tail(args), statementId, env)
             a == compileExpression(Head(args), statementId, rest.env)
         IN R(rest.lines \o a.lines, a.env)

\* for (const arg of call.arguments) lines.push(...compileExpression(arg, ...))
compileArguments(args, statementId, env) ==
    IF args = <<>> THEN R(<<>>, env)
    ELSE LET a == compileExpression(Head(args), statementId, env)
             rest == compileArguments(Tail(args), statementId, a.env)
         IN R(a.lines \o rest.lines, rest.env)

\* an element loop that emits nothing for a hole
compileElements_SkipsHoles(elements, statementId, env) ==
    IF elements = <<>> THEN [lines |-> <<>>, env |-> env, hasSpread |-> FALSE]
    ELSE LET elem == Head(elements)
             one == IF elem.type = "null"
                        THEN [lines |-> <<>>, env |-> env, hasSpread |-> FALSE]
                    ELSE IF elem.type = "SpreadElement"
                        THEN LET a == compileExpression(elem.argument, statementId, env)
                             IN [lines |-> a.lines \o <<emit(statementId, "SPREAD", <<>>)>>,
                                 env |-> a.env, hasSpread |-> TRUE]
                    ELSE LET a == compileExpression(elem, statementId, env)
                         IN [lines |-> a.lines, env |-> a.env, hasSpread |-> FALSE]
             rest == compileElements(Tail(elements), statementId, one.env)
         IN [lines |-> one.lines \o rest.lines, env |-> rest.env,
             hasSpread |-> one.hasSpread \/ rest.hasSpread]

\* the element loop of the ArrayExpression case
compileElements(elements, statementId, env) ==
    IF elements = <<>> THEN [lines |-> <<>>, env |-> env, hasSpread |-> FALSE]
    ELSE LET elem == Head(elements)
             one == IF elem.type = "null"
                        THEN [lines |-> <<emit(statementId, "PUSH_UNDEFINED", <<>>)>>,
                              env |-> env, hasSpread |-> FALSE]
                    ELSE IF elem.type = "SpreadElement"
                        THEN LET a == compileExpression(elem.argument, statementId, env)
                             IN [lines |-> a.lines \o <<emit(statementId, "SPREAD", <<>>)>>,
                                 env |-> a.env, hasSpread |-> TRUE]
                    ELSE LET a == compileExpression(elem, statementId, env)
                         IN [lines |-> a.lines, env |-> a.env, hasSpread |-> FALSE]
             rest == compileElements(Tail(elements), statementId, one.env)
         IN [lines |-> one.lines \o rest.lines, env |-> rest.env,
             hasSpread |-> one.hasSpread \/ rest.hasSpread]

\* the property loop of the ObjectExpression case
compileProperties(properties, statementId, env) ==
    IF properties = <<>> THEN [lines |-> <<>>, env |-> env, propNames |-> <<>>, hasSpread |-> FALSE]
    ELSE LET prop == Head(properties)
             unsupported(tag, message) ==
                 [lines |-> <<emit(statementId, "UNSUPPORTED", <<tag>>)>>,
                  env |-> pushDiagnostic(env, statementId, message),
                  propNames |-> <<>>, hasSpread |-> FALSE]
             skipped == [lines |-> <<>>, env |-> env, propNames |-> <<>>, hasSpread |-> FALSE]
             keyName == IF prop.key.type = "Identifier" /\ Truthy(NameOf(prop.key)) THEN prop.key.name
                        ELSE IF prop.key.type = "StringLiteral" THEN prop.key.value
                        ELSE ""
             keyFound == \/ prop.key.type = "Identifier" /\ Truthy(NameOf(prop.key))
                         \/ prop.key.type = "StringLiteral"
             one == IF prop.type = "SpreadElement"
                        THEN [unsupported("SpreadInObject", "Spread in object literals not supported")
                                 EXCEPT !.hasSpread = TRUE]
                    ELSE IF prop.type = "ObjectProperty"
                        THEN IF ~keyFound /\ prop.computed
                                 THEN unsupported("ComputedPropertyKey", "Computed property keys not supported")
                             ELSE IF Truthy(keyName) /\ prop.value.type # "null"
                                 THEN LET v == compileExpression(prop.value, statementId, env)
                                      IN [lines |-> v.lines, env |-> v.env,
                                          propNames |-> <<keyName>>, hasSpread |-> FALSE]
                             ELSE skipped
                    ELSE IF prop.type = "ObjectMethod"
                        THEN unsupported("ObjectMethod", "Object methods not supported")
                    ELSE skipped
             rest == compileProperties(Tail(properties), statementId, one.env)
         IN [lines |-> one.lines \o rest.lines, env |-> rest.env,
             propNames |-> one.propNames \o rest.propNames,
             hasSpread |-> one.hasSpread \/ rest.hasSpread]

\* the quasi loop of the TemplateLiteral case, from index i (0-based) on
compileQuasis(template, i, statementId, env) ==
    IF i >= Len(template.quasis) THEN R(<<>>, env)
    ELSE LET cooked == template.quasis[i + 1]
             quasi == IF Len(cooked) > 0
                          THEN <<emit(statementId, "PUSH_CONST", <<"\"" \o cooked \o "\"">>)>>
                      ELSE IF i = 0 \/ i = Len(template.quasis) - 1
                          THEN <<emit(statementId, "PUSH_CONST", <<"\"\"">>)>>
                      ELSE <<>>
             expr == IF i < Len(template.expressions)
                         THEN LET e == compileExpression(template.expressions[i + 1], statementId, env)
                              IN R(e.lines \o <<emit(statementId, "TO_STRING", <<>>)>>, e.env)
                     ELSE R(<<>>, env)
             rest == compileQuasis(template, i + 1, statementId, expr.env)
         IN R(quasi \o expr.lines \o rest.lines, rest.env)

\* const totalParts = ... of the TemplateLiteral case
totalParts(template) ==
    Cardinality({i \in 1..Len(template.quasis) : Len(template.quasis[i]) > 0})
    + Len(template.expressions)
    + (IF Len(template.quasis) > 0 /\ Len(template.quasis[1]) = 0 THEN 1 ELSE 0)

\* the && / || branch of the LogicalExpression case without the POP of the duplicate
LogicalAndOr_KeepsDuplicate(operator, endLabel, left, right, statementId) ==
    R(left.lines
          \o <<emit(statementId, "DUP", <<>>),
               emit(statementId, IF operator = "&&" THEN "JUMP_IF_FALSE" ELSE "JUMP_IF_TRUE", <<endLabel>>)>>
          \o right.lines
          \o <<emit(statementId, "LABEL", <<endLabel>>)>>,
      right.env)

\* the && / || branch of the LogicalExpression case, given its label and compiled operands
LogicalAndOr(operator, endLabel, left, right, statementId) ==
    R(left.lines
          \o <<emit(statementId, "DUP", <<>>),
               emit(statementId, IF operator = "&&" THEN "JUMP_IF_FALSE" ELSE "JUMP_IF_TRUE", <<endLabel>>),
               emit(statementId, "POP", <<>>)>>
          \o right.lines
          \o <<emit(statementId, "LABEL", <<endLabel>>)>>,
      right.env)

compileExpression(node, statementId, env) ==
    LET I(op, args) == emit(statementId, op, args)
        unsupported(tag, message) ==
            R(<<I("UNSUPPORTED", <<tag>>)>>, pushDiagnostic(env, statementId, message))
    IN
    CASE node.type = "NumericLiteral" -> R(<<I("PUSH_CONST", <<node.value>>)>>, env)
      [] node.type = "StringLiteral" -> R(<<I("PUSH_CONST", <<"\"" \o node.value \o "\"">>)>>, env)
      [] node.type = "BooleanLiteral" -> R(<<I("PUSH_CONST", <<node.value>>)>>, env)
      [] node.type = "NullLiteral" -> R(<<I("PUSH_NULL", <<>>)>>, env)
      [] node.type = "ArrayExpression" ->
            LET e == compileElements(node.elements, statementId, env)
            IN IF e.hasSpread
                   THEN R(e.lines \o <<I("CREATE_ARRAY", <<"spread">>)>>, e.env)
               ELSE R(e.lines \o <<I("CREATE_ARRAY", <<ToString(Len(node.elements))>>)>>, e.env)
      [] node.type = "Identifier" ->
            IF node.name = "undefined" THEN R(<<I("PUSH_UNDEFINED", <<>>)>>, env)
            ELSE R(<<I("LOAD_VAR", <<node.name>>)>>, env)
      [] node.type = "BinaryExpression" ->
            LET l == compileExpression(node.left, statementId, env)
                r == compileExpression(node.right, statementId, l.env)
            IN IF node.operator \in DOMAIN opMap
                   THEN R(l.lines \o r.lines \o <<I(opMap[node.operator], <<>>)>>, r.env)
               ELSE R(l.lines \o r.lines \o <<I("UNSUPPORTED", <<"BinaryOp(" \o node.operator \o ")">>)>>,
                      pushDiagnostic(r.env, statementId, "Unsupported binary operator: " \o node.operator))
      [] node.type = "AssignmentExpression" ->
            IF node.left.type = "Identifier" /\ Truthy(NameOf(node.left)) /\ node.operator = "="
                THEN LET r == compileExpression(node.right, statementId, env)
                     IN R(r.lines \o <<I("STORE_VAR", <<node.left.name>>), I("LOAD_VAR", <<node.left.name>>)>>,
                          r.env)
            ELSE unsupported("ComplexAssignment", "Complex assignment patterns not supported")
      [] node.type = "CallExpression" ->
            LET a == compileArguments(node.arguments, statementId, env)
                callee == node.callee
                argCount == ToString(Len(node.arguments))
            IN IF callee.type = "Identifier" /\ Truthy(NameOf(callee))
                   THEN R(a.lines \o <<I("CALL", <<callee.name, argCount>>)>>, a.env)
               ELSE IF callee.type = "MemberExpression"
                   THEN IF ~callee.computed /\ callee.property.type = "Identifier"
                           /\ Truthy(NameOf(callee.property))
                            THEN LET objectName ==
                                         IF callee.object.type = "Identifier" /\ Truthy(NameOf(callee.object))
                                             THEN callee.object.name
                                         ELSE "object"
                                     o == compileExpression(callee.object, statementId, a.env)
                                 IN R(a.lines \o o.lines
                                          \o <<I("CALL_METHOD", <<objectName, callee.property.name, argCount>>)>>,
                                      o.env)
                        ELSE R(a.lines \o <<I("UNSUPPORTED", <<"ComputedMemberCall">>)>>,
                               pushDiagnostic(a.env, statementId,
                                              "Computed member call expressions not supported"))
               ELSE R(a.lines \o <<I("UNSUPPORTED", <<"ComplexCallExpression">>)>>,
                      pushDiagnostic(a.env, statementId, "Complex call expressions not supported"))
      [] node.type = "MemberExpression" ->
            LET o == compileExpression(node.object, statementId, env)
            IN IF ~node.computed /\ node.property.type = "Identifier" /\ Truthy(NameOf(node.property))
                   THEN R(o.lines \o <<I("GET_PROP", <<node.property.name>>)>>, o.env)
               ELSE IF node.computed
                   THEN LET p == compileExpression(node.property, statementId, o.env)
                        IN R(o.lines \o p.lines \o <<I("GET_COMPUTED_PROP", <<>>)>>, p.env)
               ELSE R(o.lines \o <<I("UNSUPPORTED", <<"ComplexPropertyAccess">>)>>,
                      pushDiagnostic(o.env, statementId, "Complex property access not supported"))
      [] node.type = "UpdateExpression" ->
            IF node.argument.type = "Identifier" /\ Truthy(NameOf(node.argument))
                THEN LET varName == node.argument.name
                     IN IF node.operator = "++"
                            THEN IF node.prefix
                                     THEN R(<<I("INCREMENT", <<varName>>), I("LOAD_VAR", <<varName>>)>>, env)
                                 ELSE R(<<I("LOAD_VAR", <<varName>>), I("INCREMENT", <<varName>>)>>, env)
                        ELSE IF node.operator = "--"
                            THEN IF node.prefix
                                     THEN R(<<I("DECREMENT", <<varName>>), I("LOAD_VAR", <<varName>>)>>, env)
                                 ELSE R(<<I("LOAD_VAR", <<varName>>), I("DECREMENT", <<varName>>)>>, env)
                        ELSE unsupported("UpdateOp(" \o node.operator \o ")",
                                         "Unknown update operator: " \o node.operator)
            ELSE unsupported("ComplexUpdateExpression", "Complex update expressions not supported")
      [] node.type = "UnaryExpression" ->
            LET a == compileExpression(node.argument, statementId, env)
            IN R(a.lines \o <<I("UNSUPPORTED", <<"UnaryOp(" \o node.operator \o ")">>)>>,
                 pushDiagnostic(a.env, statementId, "Unary operator " \o node.operator \o " not yet supported"))
      [] node.type \in {"ParenthesizedExpression", "TSAsExpression"} ->
            compileExpression(node.expression, statementId, env)
      [] node.type = "LogicalExpression" ->
            LET end == generateLabel("logical_end", env)
                l == compileExpression(node.left, statementId, end.env)
            IN IF node.operator \in {"&&", "||"}
                   THEN LogicalAndOr(node.operator, end.label, l,
                                     compileExpression(node.right, statementId, l.env), statementId)
               ELSE IF node.operator = "??"
                   THEN LET notNull == generateLabel("not_nullish", l.env)
                            r == compileExpression(node.right, statementId, notNull.env)
                        IN R(l.lines
                                 \o <<I("DUP", <<>>), I("PUSH_NULL", <<>>), I("EQ", <<>>),
                                      I("JUMP_IF_FALSE", <<notNull.label>>), I("POP", <<>>)>>
                                 \o r.lines
                                 \o <<I("JUMP", <<end.label>>), I("LABEL", <<notNull.label>>),
                                      I("LABEL", <<end.label>>)>>,
                             r.env)
               ELSE R(l.lines \o <<I("UNSUPPORTED", <<"LogicalOp(" \o node.operator \o ")">>)>>,
                      pushDiagnostic(l.env, statementId, "Unknown logical operator: " \o node.operator))
      [] node.type = "ObjectExpression" ->
            LET p == compileProperties(node.properties, statementId, env)
            IN IF ~p.hasSpread
                   THEN R(p.lines \o <<I("CREATE_OBJECT", <<ToString(Len(p.propNames))>>)>>, p.env)
               ELSE R(p.lines, p.env)
      [] node.type = "TemplateLiteral" ->
            LET q == compileQuasis(node, 0, statementId, env)
                n == totalParts(node)
            IN IF n > 1 THEN R(q.lines \o <<I("CONCAT_STRINGS", <<ToString(n)>>)>>, q.env)
               ELSE IF n = 0 THEN R(q.lines \o <<I("PUSH_CONST", <<"\"\"">>)>>, q.env)
               ELSE q
      [] node.type = "SpreadElement" ->
            LET a == compileExpression(node.argument, statementId, env)
            IN R(a.lines \o <<I("SPREAD", <<>>)>>, a.env)
      [] OTHER ->
            unsupported(node.type, "Unsupported expression type: " \o node.type)

----------------------------------------------------------------------------
(* Statement compiler *)

RECURSIVE compileStatement(_, _, _)
RECURSIVE compileBlock(_, _, _)
RECURSIVE compileStatements(_, _, _)
RECURSIVE compileDeclarators(_, _, _)
RECURSIVE compileParams(_, _, _, _)
RECURSIVE generateCaseLabels(_, _)
RECURSIVE compileCaseTests(_, _, _, _)
RECURSIVE compileCaseBodies(_, _, _, _)
RECURSIVE compileImportSpecifiers(_, _, _)
RECURSIVE compileExportSpecifiers(_, _, _)
RECURSIVE declaredNames(_)

\* for (const stmt of body) lines.push(...compileStatement(stmt, ...))
compileStatements(stmts, statementId, env) ==
    IF stmts = <<>> THEN R(<<>>, env)
    ELSE LET s == compileStatement(Head(stmts), statementId, env)
             rest == compileStatements(Tail(stmts), statementId, s.env)
         IN R(s.lines \o rest.lines, rest.env)

\* a compileBlock that gives the statements of a block an id of their own
compileBlock_OwnId(node, statementId, env) ==
    IF node.type = "BlockStatement" THEN compileStatements(node.body, statementId \o "-block", env)
    ELSE compileStatement(node, statementId, env)

compileBlock(node, statementId, env) ==
    IF node.type = "BlockStatement" THEN compileStatements(node.body, statementId, env)
    ELSE compileStatement(node, statementId, env)

\* a declarator loop that gives up the declaration at the first destructuring target
compileDeclarators_StopsAtPattern(declarations, statementId, env) ==
    IF declarations = <<>> THEN R(<<>>, env)
    ELSE LET declarator == Head(declarations)
         IN IF declarator.id.type = "Identifier" /\ Truthy(NameOf(declarator.id))
                THEN LET init == IF declarator.init.type # "null"
                                     THEN compileExpression(declarator.init, statementId, env)
                                 ELSE R(<<>>, env)
                         rest == compileDeclarators(Tail(declarations), statementId, init.env)
                     IN R(<<emit(statementId, "DECLARE_VAR", <<declarator.id.name>>)>>
                              \o init.lines
                              \o (IF declarator.init.type # "null"
                                      THEN <<emit(statementId, "STORE_VAR", <<declarator.id.name>>)>>
                                  ELSE <<>>)
                              \o rest.lines,
                          rest.env)
            ELSE R(<<emit(statementId, "UNSUPPORTED", <<"DestructuringPattern">>)>>,
                   pushDiagnostic(env, statementId, "Destructuring patterns not supported"))

\* the declarator loop of the VariableDeclaration case
compileDeclarators(declarations, statementId, env) ==
    IF declarations = <<>> THEN R(<<>>, env)
    ELSE LET declarator == Head(declarations)
             one == IF declarator.id.type = "Identifier" /\ Truthy(NameOf(declarator.id))
                        THEN IF declarator.init.type # "null"
                                 THEN LET init == compileExpression(declarator.init, statementId, env)
                                      IN R(<<emit(statementId, "DECLARE_VAR", <<declarator.id.name>>)>>
                                               \o init.lines
                                               \o <<emit(statementId, "STORE_VAR", <<declarator.id.name>>)>>,
                                           init.env)
                             ELSE R(<<emit(statementId, "DECLARE_VAR", <<declarator.id.name>>)>>, env)
                    ELSE R(<<emit(statementId, "UNSUPPORTED", <<"DestructuringPattern">>)>>,
                           pushDiagnostic(env, statementId, "Destructuring patterns not supported"))
             rest == compileDeclarators(Tail(declarations), statementId, one.env)
         IN R(one.lines \o rest.lines, rest.env)

\* a parameter loop that numbers the parameters from 1
compileParams_OneBased(params, index, statementId, env) ==
    IF index >= Len(params) THEN R(<<>>, env)
    ELSE LET param == params[index + 1]
             one == IF param.type = "Identifier" /\ Truthy(NameOf(param))
                        THEN R(<<emit(statementId, "PARAM", <<param.name, ToString(index + 1)>>)>>, env)
                    ELSE R(<<emit(statementId, "UNSUPPORTED", <<"ComplexParameter">>)>>,
                           pushDiagnostic(env, statementId, "Complex parameters not supported"))
             rest == compileParams(params, index + 1, statementId, one.env)
         IN R(one.lines \o rest.lines, rest.env)

\* funcDecl.params.forEach((param, index) => ...), from position index (0-based) on
compileParams(params, index, statementId, env) ==
    IF index >= Len(params) THEN R(<<>>, env)
    ELSE LET param == params[index + 1]
             one == IF param.type = "Identifier" /\ Truthy(NameOf(param))
                        THEN R(<<emit(statementId, "PARAM", <<param.name, ToString(index)>>)>>, env)
                    ELSE R(<<emit(statementId, "UNSUPPORTED", <<"ComplexParameter">>)>>,
                           pushDiagnostic(env, statementId, "Complex parameters not supported"))
             rest == compileParams(params, index + 1, statementId, one.env)
         IN R(one.lines \o rest.lines, rest.env)

\* switchStmt.cases.findIndex(c => c.test === null), 1-based, 0 when there is none
defaultIndex(cases) ==
    IF \E i \in 1..Len(cases) : cases[i].test.type = "null"
        THEN CHOOSE i \in 1..Len(cases) :
                 /\ cases[i].test.type = "null"
                 /\ \A j \in 1..(i - 1) : cases[j].test.type # "null"
    ELSE 0

\* switchStmt.cases.map(c => c.test === null ? generateLabel("switch_default") : generateLabel("switch_case"))
generateCaseLabels(cases, env) ==
    IF cases = <<>> THEN [labels |-> <<>>, env |-> env]
    ELSE LET g == IF Head(cases).test.type = "null" THEN generateLabel("switch_default", env)
                  ELSE generateLabel("switch_case", env)
             rest == generateCaseLabels(Tail(cases), g.env)
         IN [labels |-> <<g.label>> \o rest.labels, env |-> rest.env]

\* the jump-table loop of the SwitchStatement case, from case i (1-based) on
compileCaseTests(cases, caseLabels, i, ctx) ==
    IF i > Len(cases) THEN R(<<>>, ctx.env)
    ELSE LET one == IF cases[i].test.type # "null"
                        THEN LET t == compileExpression(cases[i].test, ctx.statementId, ctx.env)
                             IN R(<<emit(ctx.statementId, "DUP", <<>>)>>
                                      \o t.lines
                                      \o <<emit(ctx.statementId, "EQ", <<>>),
                                           emit(ctx.statementId, "JUMP_IF_TRUE", <<caseLabels[i]>>)>>,
                                  t.env)
                    ELSE R(<<>>, ctx.env)
             rest == compileCaseTests(cases, caseLabels, i + 1, [ctx EXCEPT !.env = one.env])
         IN R(one.lines \o rest.lines, rest.env)

\* the case-body loop of the SwitchStatement case, from case i (1-based) on
compileCaseBodies(cases, caseLabels, i, ctx) ==
    IF i > Len(cases) THEN R(<<>>, ctx.env)
    ELSE LET body == compileStatements(cases[i].consequent, ctx.statementId, ctx.env)
             rest == compileCaseBodies(cases, caseLabels, i + 1, [ctx EXCEPT !.env = body.env])
         IN R(<<emit(ctx.statementId, "LABEL", <<caseLabels[i]>>)>>
                  \o body.lines \o rest.lines,
              rest.env)

\* the specifier loop of the ImportDeclaration case
compileImportSpecifiers(specifiers, sourcePath, statementId) ==
    IF specifiers = <<>> THEN <<>>
    ELSE LET spec == Head(specifiers)
             one == IF spec.type = "ImportSpecifier"
                        THEN IF spec.imported.name # spec.local.name
                                 THEN <<emit(statementId, "IMPORT_AS",
                                            <<spec.imported.name, spec.local.name, sourcePath>>)>>
                             ELSE <<emit(statementId, "IMPORT", <<spec.local.name, sourcePath>>)>>
                    ELSE IF spec.type = "ImportDefaultSpecifier"
                        THEN <<emit(statementId, "IMPORT_DEFAULT", <<spec.local.name, sourcePath>>)>>
                    ELSE IF spec.type = "ImportNamespaceSpecifier"
                        THEN <<emit(statementId, "IMPORT_NAMESPACE", <<spec.local.name, sourcePath>>)>>
                    ELSE <<>>
         IN one \o compileImportSpecifiers(Tail(specifiers), sourcePath, statementId)

\* the specifier loop of the ExportNamedDeclaration case; spec.local.name of a
\* specifier without a local (export * as ns from "m") raises a TypeError
compileExportSpecifiers(specifiers, statementId, env) ==
    IF specifiers = <<>> THEN R(<<>>, env)
    ELSE LET spec == Head(specifiers)
         IN IF spec.local.type = "null" THEN R(<<>>, throwTypeError(env))
            ELSE LET one == IF NameOf(spec.local) # NameOf(spec.exported)
                                THEN <<emit(statementId, "EXPORT_AS",
                                           <<spec.local.name, spec.exported.name>>)>>
                            ELSE <<emit(statementId, "EXPORT", <<spec.local.name>>)>>
                     rest == compileExportSpecifiers(Tail(specifiers), statementId, env)
                 IN R(one \o rest.lines, rest.env)

\* declarations.map(d => d.id.name).filter(Boolean)
declaredNames(declarations) ==
    IF declarations = <<>> THEN <<>>
    ELSE (IF Truthy(NameOf(Head(declarations).id)) THEN <<Head(declarations).id.name>> ELSE <<>>)
             \o declaredNames(Tail(declarations))

extractDeclaredNames(node) ==
    IF node.type = "VariableDeclaration" THEN declaredNames(node.declarations)
    ELSE IF node.type = "FunctionDeclaration"
        THEN IF Truthy(NameOf(node.id)) THEN <<node.id.name>> ELSE <<>>
    ELSE <<>>

\* the ExpressionStatement case without the trailing POP
ExpressionStatement_NoPop(expression, statementId) ==
    R(expression.lines, expression.env)

\* the ExpressionStatement case, given the compiled expression
ExpressionStatement(expression, statementId) ==
    R(expression.lines \o <<emit(statementId, "POP", <<>>)>>, expression.env)

\* the IfStatement case with an alternate that falls from the consequent into the alternate
IfElseStatement_NoJump(elseLabel, endLabel, test, consequent, alternate, statementId) ==
    R(test.lines
          \o <<emit(statementId, "JUMP_IF_FALSE", <<elseLabel>>)>>
          \o consequent.lines
          \o <<emit(statementId, "LABEL", <<elseLabel>>)>>
          \o alternate.lines
          \o <<emit(statementId, "LABEL", <<endLabel>>)>>,
      alternate.env)

\* the IfStatement case with an alternate, given its labels and compiled parts
IfElseStatement(elseLabel, endLabel, test, consequent, alternate, statementId) ==
    R(test.lines
          \o <<emit(statementId, "JUMP_IF_FALSE", <<elseLabel>>)>>
          \o consequent.lines
          \o <<emit(statementId, "JUMP", <<endLabel>>),
               emit(statementId, "LABEL", <<elseLabel>>)>>
          \o alternate.lines
          \o <<emit(statementId, "LABEL", <<endLabel>>)>>,
      alternate.env)

\* the IfStatement case without an alternate, given its label and compiled parts
IfStatement(endLabel, test, consequent, statementId) ==
    R(test.lines
          \o <<emit(statementId, "JUMP_IF_FALSE", <<endLabel>>)>>
          \o consequent.lines
          \o <<emit(statementId, "LABEL", <<endLabel>>)>>,
      consequent.env)

\* the SwitchStatement case that jumps to the end label even when a default case exists
SwitchStatement_SkipsDefault(cases, endLabel, caseLabels, discriminant, tests, bodies, statementId) ==
    R(discriminant.lines
          \o tests.lines
          \o <<emit(statementId, "JUMP", <<endLabel>>)>>
          \o bodies.lines
          \o <<emit(statementId, "LABEL", <<endLabel>>),
               emit(statementId, "POP", <<>>)>>,
      popBreakTarget(bodies.env))

\* the SwitchStatement case, given its labels and compiled parts
SwitchStatement(cases, endLabel, caseLabels, discriminant, tests, bodies, statementId) ==
    R(discriminant.lines
          \o tests.lines
          \o <<IF defaultIndex(cases) # 0
                   THEN emit(statementId, "JUMP", <<caseLabels[defaultIndex(cases)]>>)
               ELSE emit(statementId, "JUMP", <<endLabel>>)>>
          \o bodies.lines
          \o <<emit(statementId, "LABEL", <<endLabel>>),
               emit(statementId, "POP", <<>>)>>,
      popBreakTarget(bodies.env))

\* a loop that declares its variable whether or not the source declares it
compileForLoop_AlwaysDeclares(node, tag, getOp, loopStart, loopEnd, statementId, env) ==
    LET I(op, args) == emit(statementId, op, args)
        declares == /\ node.left.type = "VariableDeclaration"
                    /\ Len(node.left.declarations) > 0
                    /\ node.left.declarations[1].id.type = "Identifier"
                    /\ Truthy(NameOf(node.left.declarations[1].id))
        varName == IF declares THEN node.left.declarations[1].id.name
                   ELSE IF node.left.type = "Identifier" THEN NameOf(node.left)
                   ELSE ""
    IN IF ~Truthy(varName)
           THEN R(<<I("UNSUPPORTED", <<"ComplexFor" \o tag \o "Pattern">>)>>,
                  pushDiagnostic(env, statementId,
                                 IF tag = "In" THEN "Complex for-in patterns not supported"
                                 ELSE "Complex for-of patterns not supported"))
       ELSE LET right == compileExpression(node.right, statementId, env)
                body == compileBlock(node.body, statementId, right.env)
            IN R(<<I("DECLARE_VAR", <<varName>>)>>
                     \o right.lines
                     \o <<I(getOp, <<>>), I("LABEL", <<loopStart>>), I("ITER_HAS_NEXT", <<>>),
                          I("JUMP_IF_FALSE", <<loopEnd>>), I("ITER_NEXT", <<varName>>)>>
                     \o body.lines
                     \o <<I("JUMP", <<loopStart>>), I("LABEL", <<loopEnd>>)>>,
                 body.env)

\* the part of the ForInStatement / ForOfStatement cases after the two labels
\* are generated; tag is "In" or "Of", getOp is GET_KEYS or GET_ITERATOR
compileForLoop(node, tag, getOp, loopStart, loopEnd, statementId, env) ==
    LET I(op, args) == emit(statementId, op, args)
        declares == /\ node.left.type = "VariableDeclaration"
                    /\ Len(node.left.declarations) > 0
                    /\ node.left.declarations[1].id.type = "Identifier"
                    /\ Truthy(NameOf(node.left.declarations[1].id))
        varName == IF declares THEN node.left.declarations[1].id.name
                   ELSE IF node.left.type = "Identifier" THEN NameOf(node.left)
                   ELSE ""
    IN IF ~Truthy(varName)
           THEN R(<<I("UNSUPPORTED", <<"ComplexFor" \o tag \o "Pattern">>)>>,
                  pushDiagnostic(env, statementId,
                                 IF tag = "In" THEN "Complex for-in patterns not supported"
                                 ELSE "Complex for-of patterns not supported"))
       ELSE LET right == compileExpression(node.right, statementId, env)
                body == compileBlock(node.body, statementId, right.env)
            IN R((IF declares THEN <<I("DECLARE_VAR", <<varName>>)>> ELSE <<>>)
                     \o right.lines
                     \o <<I(getOp, <<>>), I("LABEL", <<loopStart>>), I("ITER_HAS_NEXT", <<>>),
                          I("JUMP_IF_FALSE", <<loopEnd>>), I("ITER_NEXT", <<varName>>)>>
                     \o body.lines
                     \o <<I("JUMP", <<loopStart>>), I("LABEL", <<loopEnd>>)>>,
                 body.env)

\* a BreakStatement case without the check for an empty stack
BreakStatement_Unchecked(statementId, env) ==
    R(<<emit(statementId, "JUMP",
             <<IF Len(env.breakTargetStack) = 0 THEN "undefined"
               ELSE env.breakTargetStack[Len(env.breakTargetStack)]>>)>>,
      env)

\* the BreakStatement case
BreakStatement(statementId, env) ==
    IF Len(env.breakTargetStack) = 0
        THEN R(<<emit(statementId, "UNSUPPORTED", <<"BreakOutsideSwitch">>)>>,
               pushDiagnostic(env, statementId, "Break statement outside of switch"))
    ELSE R(<<emit(statementId, "JUMP", <<env.breakTargetStack[Len(env.breakTargetStack)]>>)>>, env)

compileStatement(node, statementId, env) ==
    LET I(op, args) == emit(statementId, op, args)
        unsupported(tag, message) ==
            R(<<I("UNSUPPORTED", <<tag>>)>>, pushDiagnostic(env, statementId, message))
    IN
    CASE node.type = "VariableDeclaration" ->
            compileDeclarators(node.declarations, statementId, env)
      [] node.type = "ExpressionStatement" ->
            ExpressionStatement(compileExpression(node.expression, statementId, env), statementId)
      [] node.type = "FunctionDeclaration" ->
            LET funcName == IF Truthy(NameOf(node.id)) THEN node.id.name ELSE "anonymous"
                paramCount == Len(node.params)
                funcLabel == generateLabel("func_" \o funcName, env)
                funcEndLabel == generateLabel("func_" \o funcName \o "_end", funcLabel.env)
                params == compileParams(node.params, 0, statementId, funcEndLabel.env)
                body == compileBlock(node.body, statementId, params.env)
            IN R(<<I("DECLARE_FUNC", <<funcName, ToString(paramCount)>>), I("LABEL", <<funcLabel.label>>)>>
                     \o params.lines
                     \o body.lines
                     \o <<I("RETURN_UNDEFINED", <<>>), I("LABEL", <<funcEndLabel.label>>)>>,
                 body.env)
      [] node.type = "IfStatement" ->
            IF node.alternate.type # "null"
                THEN LET elseLabel == generateLabel("if_else", env)
                         endLabel == generateLabel("if_end", elseLabel.env)
                         test == compileExpression(node.test, statementId, endLabel.env)
                         consequent == compileBlock(node.consequent, statementId, test.env)
                         alternate == compileBlock(node.alternate, statementId, consequent.env)
                     IN IfElseStatement(elseLabel.label, endLabel.label, test, consequent, alternate,
                                        statementId)
            ELSE LET endLabel == generateLabel("if_end", env)
                     test == compileExpression(node.test, statementId, endLabel.env)
                     consequent == compileBlock(node.consequent, statementId, test.env)
                 IN IfStatement(endLabel.label, test, consequent, statementId)
      [] node.type = "WhileStatement" ->
            LET loopStart == generateLabel("while_start", env)
                loopEnd == generateLabel("while_end", loopStart.env)
                test == compileExpression(node.test, statementId, loopEnd.env)
                body == compileBlock(node.body, statementId, test.env)
            IN R(<<I("LABEL", <<loopStart.label>>)>>
                     \o test.lines
                     \o <<I("JUMP_IF_FALSE", <<loopEnd.label>>)>>
                     \o body.lines
                     \o <<I("JUMP", <<loopStart.label>>), I("LABEL", <<loopEnd.label>>)>>,
                 body.env)
      [] node.type = "ForInStatement" ->
            LET loopStart == generateLabel("forin_start", env)
                loopEnd == generateLabel("forin_end", loopStart.env)
            IN compileForLoop(node, "In", "GET_KEYS", loopStart.label, loopEnd.label, statementId, loopEnd.env)
      [] node.type = "ForStatement" ->
            unsupported(node.type, "For loops not yet supported")
      [] node.type = "ForOfStatement" ->
            LET loopStart == generateLabel("forof_start", env)
                loopEnd == generateLabel("forof_end", loopStart.env)
            IN compileForLoop(node, "Of", "GET_ITERATOR", loopStart.label, loopEnd.label, statementId, loopEnd.env)
      [] node.type = "SwitchStatement" ->
            LET endLabel == generateLabel("switch_end", env)
                pushed == pushBreakTarget(endLabel.env, endLabel.label)
                discriminant == compileExpression(node.discriminant, statementId, pushed)
                caseLabels == generateCaseLabels(node.cases, discriminant.env)
                tests == compileCaseTests(node.cases, caseLabels.labels, 1,
                                          [statementId |-> statementId, env |-> caseLabels.env])
                bodies == compileCaseBodies(node.cases, caseLabels.labels, 1,
                                            [statementId |-> statementId, env |-> tests.env])
            IN SwitchStatement(node.cases, endLabel.label, caseLabels.labels,
                               discriminant, tests, bodies, statementId)
      [] node.type = "BreakStatement" ->
            BreakStatement(statementId, env)
      [] node.type = "ReturnStatement" ->
            IF node.argument.type # "null"
                THEN LET a == compileExpression(node.argument, statementId, env)
                     IN R(a.lines \o <<I("RETURN", <<>>)>>, a.env)
            ELSE R(<<I("RETURN_UNDEFINED", <<>>)>>, env)
      [] node.type = "ImportDeclaration" ->
            R(compileImportSpecifiers(node.specifiers, node.source, statementId), env)
      [] node.type = "ExportNamedDeclaration" ->
            IF node.declaration.type # "null"
                THEN LET d == compileStatement(node.declaration, statementId, env)
                         names == extractDeclaredNames(node.declaration)
                     IN R(d.lines \o [k \in 1..Len(names) |-> I("EXPORT", <<names[k]>>)], d.env)
            ELSE compileExportSpecifiers(node.specifiers, statementId, env)
      [] node.type = "ExportDefaultDeclaration" ->
            unsupported(node.type, "Default exports not yet supported")
      [] node.type = "EmptyStatement" ->
            R(<<I("NOOP", <<>>)>>, env)
      [] node.type = "BlockStatement" ->
            compileBlock(node, statementId, env)
      [] OTHER ->
            unsupported(node.type, "Unsupported statement type: " \o node.type)

RECURSIVE compileBlocks(_, _)
\* the loop of compile(): one run of instructions per block, a NOOP for an empty run
compileBlocks(blocks, env) ==
    IF blocks = <<>> \/ env.thrown THEN R(<<>>, env)
    ELSE LET block == Head(blocks)
             pushAll(blockLines) ==
                 LET padded == IF Len(blockLines.lines) = 0
                                   THEN <<emit(block.id, "NOOP", <<>>)>>
                               ELSE blockLines.lines
                     rest == compileBlocks(Tail(blocks), blockLines.env)
                 IN R(padded \o rest.lines, rest.env)
         IN pushAll(compileStatement(block.node, block.id, env))

\* what a compile() call that worked on r leaves: the CompileResult (when it
\* returns) and the module state
CompileResult(r) ==
    [thrown |-> r.env.thrown,
     lines |-> IF r.env.thrown THEN <<>> ELSE instructions(r.lines),
     diagnostics |-> IF r.env.thrown THEN <<>> ELSE r.env.diagnostics,
     labelCounter |-> r.env.labelCounter,
     breakTargetStack |-> r.env.breakTargetStack]

\* compile(statements) started with the module state (lc, bts)
compile(blocks, lc, bts) ==
    CompileResult(compileBlocks(blocks, Env(<<>>, lc, bts, FALSE)))

----------------------------------------------------------------------------
(* The programs handed to compile(): statement lists the parser can produce *)

A == Num("1")
X == Id("x")
Y == Id("y")
Operands == {A, X}

Leaves ==
    {A, Str("s"), Bool("true"), NullLit, X, Id("undefined"), Other("ThisExpression"),
     Other("ArrowFunctionExpression")}

Arrays ==
    {Arr(<<>>), Arr(<<A>>), Arr(<<A, NULL, X>>), Arr(<<Spread(X)>>), Arr(<<A, Spread(X)>>),
     Arr(<<NULL, NULL>>), Arr(<<Spread(X), NULL, Spread(Logical("||", X, Y)), A>>)}

Binaries ==
    {Bin(op, l, r) : op \in {"+", "*", "===", "!=", "<=", "**", "in"}, l \in Operands, r \in Operands}
        \cup {Bin(op, A, X) : op \in {"-", "/", "%", "==", "!==", "<", ">", ">=", "instanceof", "&", ">>"}}

Assignments ==
    {Assign("=", X, A), Assign("+=", X, A), Assign("=", Member(X, Id("p"), FALSE), A)}

Calls ==
    {Call(Id("f"), <<>>), Call(Id("f"), <<A, X>>), Call(Id("f"), <<Spread(X)>>),
     Call(Member(Id("console"), Id("log"), FALSE), <<X>>),
     Call(Member(Member(Id("a"), Id("b"), FALSE), Id("c"), FALSE), <<>>),
     Call(Member(X, Y, TRUE), <<A>>),
     Call(Call(Id("f"), <<>>), <<A>>)}

Members ==
    {Member(X, Id("p"), FALSE), Member(X, A, TRUE), Member(X, Other("PrivateName"), FALSE)}

Updates ==
    {Update(op, pre, X) : op \in {"++", "--"}, pre \in BOOLEAN}
        \cup {Update("++", FALSE, Member(X, Id("p"), FALSE))}

Unaries == {Unary("-", X), Unary("!", X), TSAs(X)}

LogicalOps == {"&&", "||", "??"}

Logicals == {Logical(op, l, r) : op \in LogicalOps, l \in Operands, r \in Operands}

Objects ==
    {Obj(<<>>), Obj(<<Prop(Id("a"), A, FALSE)>>),
     Obj(<<Prop(Id("a"), A, FALSE), Prop(Str("b"), X, FALSE)>>),
     Obj(<<Prop(Bin("+", A, A), A, TRUE)>>), Obj(<<Prop(Id("k"), A, TRUE)>>),
     Obj(<<Method(Id("m"))>>), Obj(<<Spread(X)>>), Obj(<<Prop(Id("a"), A, FALSE), Spread(X)>>),
     Obj(<<Prop(A, X, FALSE)>>)}

Templates ==
    {Template(<<"">>, <<>>), Template(<<"a">>, <<>>), Template(<<"a", "">>, <<X>>),
     Template(<<"", "">>, <<X>>), Template(<<"", "b">>, <<X>>),
     Template(<<"a", "b", "c">>, <<X, Y>>), Template(<<"a", "", "c">>, <<X, Y>>)}

Nested ==
    {Bin("+", A, Bin("*", Num("2"), Num("3"))), Bin("+", Bin("**", A, X), A)}
        \cup {Logical(o1, Logical(o2, X, Y), A) : o1 \in LogicalOps, o2 \in LogicalOps}
        \cup {Logical(o1, X, Logical(o2, Y, A)) : o1 \in LogicalOps, o2 \in LogicalOps}
        \cup {Call(Id("f"), <<Logical("&&", X, Y), Logical("??", X, Y)>>),
              Arr(<<Logical("||", X, Y), A>>),
              Obj(<<Prop(Id("a"), Logical("??", X, A), FALSE)>>),
              Template(<<"", "">>, <<Logical("||", X, Y)>>),
              Member(Logical("||", X, Y), Id("p"), FALSE),
              Assign("=", X, Logical("&&", X, Y)),
              Call(Member(X, Id("m"), FALSE), <<Template(<<"a", "">>, <<Y>>)>>)}

Expressions ==
    Leaves \cup Arrays \cup Binaries \cup Assignments \cup Calls \cup Members \cup Updates
        \cup Unaries \cup Logicals \cup Objects \cup Templates \cup Nested

SX == ExprStmt(X)
SY == ExprStmt(Y)
Pattern == Other("ObjectPattern")

VariableDeclarations ==
    {VarDecl(<<Declarator(X, NULL)>>), VarDecl(<<Declarator(X, A)>>),
     VarDecl(<<Declarator(Pattern, X)>>),
     VarDecl(<<Declarator(X, A), Declarator(Pattern, X), Declarator(Y, NULL)>>),
     VarDecl(<<Declarator(X, Logical("&&", X, Y))>>)}

Ifs ==
    {If(t, c, a) :
        t \in {X, Logical("&&", X, Y)},
        c \in {Block(<<SY>>), SY, Block(<<>>), Block(<<If(Y, Block(<<SX>>), NULL)>>),
               Block(<<If(Y, Block(<<SX>>), Block(<<SY>>))>>)},
        a \in {NULL, Block(<<ExprStmt(A)>>), ExprStmt(A), If(Y, Block(<<SX>>), NULL),
               If(Y, Block(<<SX>>), Block(<<SY>>))}}

Whiles ==
    {While(X, Block(<<SY>>)), While(X, Block(<<Break>>)), While(Logical("||", X, Y), SY),
     While(X, Block(<<Break, SY>>)),
     While(X, Block(<<While(Y, Block(<<SX>>))>>)),
     While(X, Block(<<If(Y, Block(<<Break>>), NULL)>>))}

LoopLefts ==
    {VarDecl(<<Declarator(Id("k"), NULL)>>), Id("k"),
     VarDecl(<<Declarator(Other("ArrayPattern"), NULL)>>), Member(X, Id("p"), FALSE)}

LoopBodies == {Block(<<ExprStmt(Id("k"))>>), Block(<<Break>>), ExprStmt(Id("k"))}

ForLoops ==
    {ForIn(l, Id("o"), b) : l \in LoopLefts, b \in LoopBodies}
        \cup {ForOf(l, Id("o"), b) : l \in LoopLefts, b \in LoopBodies}
        \cup {ForIn(Id("k"), Id("o"), Block(<<ForOf(Id("j"), Id("k"), Block(<<SX>>))>>)),
              ForOf(Id("k"), Logical("||", X, Y), Block(<<SX>>))}

Case1 == SwitchCase(Num("1"), <<SX, Break>>)
Case2 == SwitchCase(Num("2"), <<SY>>)
Case3 == SwitchCase(Logical("&&", X, Y), <<>>)
Default == SwitchCase(NULL, <<ExprStmt(A)>>)
DefaultBreak == SwitchCase(NULL, <<Break>>)

CaseLists ==
    {<<>>, <<Case1>>, <<Case2>>, <<Default>>, <<Case1, Case2>>, <<Case2, Case1>>,
     <<Case1, Default>>, <<Default, Case1>>, <<Case1, Default, Case2>>,
     <<Case1, Case2, DefaultBreak>>, <<Case3, Case1>>, <<Case1, Case2, Case3, Default>>}

InnerSwitch == Switch(Y, <<SwitchCase(A, <<Break>>)>>)

Switches ==
    {Switch(d, cs) : d \in {X, Logical("||", X, Y)}, cs \in CaseLists}
        \cup {Switch(X, <<SwitchCase(A, <<InnerSwitch, Break>>)>>),
              Switch(X, <<SwitchCase(A, <<InnerSwitch>>), SwitchCase(NULL, <<InnerSwitch, Break>>)>>),
              Switch(X, <<SwitchCase(A, <<While(Y, Block(<<Break>>))>>)>>),
              Switch(X, <<SwitchCase(A, <<If(Y, Block(<<Break>>), Block(<<SX>>))>>), Default>>),
              Switch(X, <<SwitchCase(A, <<ForIn(Id("k"), Id("o"), Block(<<Break>>))>>)>>),
              Switch(X, <<SwitchCase(A, <<Block(<<Break>>)>>), Case2>>)}

Functions ==
    {Func(Id("f"), <<>>, Block(<<>>)),
     Func(Id("f"), <<Id("a"), Id("b")>>, Block(<<Return(Id("a"))>>)),
     Func(Id("f"), <<Pattern, Id("b")>>, Block(<<Return(NULL)>>)),
     Func(Id("f"), <<Id("a")>>, Block(<<If(Id("a"), Block(<<Return(A)>>), NULL)>>)),
     Func(Id("f"), <<>>, Block(<<Switch(X, <<Case1, Default>>)>>)),
     Func(Id("f_end"), <<>>, Block(<<Func(Id("f"), <<>>, Block(<<>>))>>)),
     Func(Id("f"), <<Id("a"), Pattern, Id("c")>>, Block(<<ExprStmt(Other("ThisExpression"))>>))}

NamedImport == ImportSpec("ImportSpecifier", Id("a"), Id("a"))
AliasedImport == ImportSpec("ImportSpecifier", Id("a"), Id("b"))
DefaultImport == ImportSpec("ImportDefaultSpecifier", NULL, Id("d"))
NamespaceImport == ImportSpec("ImportNamespaceSpecifier", NULL, Id("ns"))

Imports ==
    {Import(specs, "mod") :
        specs \in {<<>>, <<NamedImport>>, <<AliasedImport>>, <<DefaultImport>>, <<NamespaceImport>>,
                   <<NamedImport, AliasedImport>>, <<DefaultImport, NamedImport>>,
                   <<DefaultImport, NamespaceImport>>}}

NamedExport == ExportSpec("ExportSpecifier", Id("a"), Id("a"))
AliasedExport == ExportSpec("ExportSpecifier", Id("a"), Id("b"))
\* export * as ns from "mod": Babel's ExportNamespaceSpecifier has no local
NamespaceExport == ExportSpec("ExportNamespaceSpecifier", NULL, Id("ns"))

Exports ==
    {ExportNamed(d, <<>>) : d \in VariableDeclarations}
        \cup {ExportNamed(Func(Id("f"), <<Id("a")>>, Block(<<Return(Id("a"))>>)), <<>>),
              ExportNamed(Other("ClassDeclaration"), <<>>),
              ExportNamed(Other("TSInterfaceDeclaration"), <<>>)}
        \cup {ExportNamed(NULL, specs) :
                specs \in {<<>>, <<NamedExport>>, <<AliasedExport>>, <<NamedExport, AliasedExport>>,
                           <<NamespaceExport>>}}

Others ==
    {Other("EmptyStatement"), Other("ForStatement"), Other("ExportDefaultDeclaration"),
     Other("TryStatement"), Other("ClassDeclaration"), Other("ExportAllDeclaration"),
     Block(<<>>), Block(<<SX>>), Block(<<Block(<<>>)>>)}

Statements ==
    {ExprStmt(e) : e \in Expressions} \cup VariableDeclarations \cup Ifs \cup Whiles \cup ForLoops
        \cup Switches \cup Functions \cup Imports \cup Exports \cup Others

\* the statements the multi-statement programs are made of
MaxStatements == 2

TopLevel ==
    {SX, If(X, Block(<<SY>>), NULL), If(X, Block(<<SY>>), Block(<<SX>>)),
     Switch(X, <<Case1, Default>>),
     While(Logical("&&", X, Y), Block(<<SY>>)), Import(<<>>, "mod"), Block(<<>>),
     ExportNamed(NULL, <<NamespaceExport>>), ExprStmt(Template(<<"", "">>, <<X>>)),
     While(X, Block(<<Break>>))}

\* the program bodies: no statement, one statement of any kind, several of TopLevel
NodeLists ==
    {<<>>}
        \cup {<<n>> : n \in Statements}
        \cup UNION {[1..len -> TopLevel] : len \in 2..MaxStatements}

\* where the statements of a source text start: one statement per line, or all
\* statements on the first line, four columns apart
Layouts == {"lines", "oneLine"}

\* program.body of a source text with these statements in this layout: every
\* node carries the loc Babel records for it
Located(nodes, layout) ==
    [i \in 1..Len(nodes) |->
        [node |-> nodes[i],
         loc |-> IF layout = "lines" THEN [start |-> [line |-> i, column |-> 0]]
                 ELSE [start |-> [line |-> 1, column |-> 4 * (i - 1)]]]]

\* a block whose id leaves out the index
StatementBlock_IdFromLoc(index, stmt) ==
    [id |-> "stmt-" \o ToString(stmt.loc.start.line) \o "-" \o ToString(stmt.loc.start.column),
     index |-> index,
     loc |-> stmt.loc,
     node |-> stmt.node,
     colorBand |-> index % 2]

\* the block pushed for body[index] (0-based index)
StatementBlock(index, stmt) ==
    [id |-> "stmt-" \o ToString(index) \o "-" \o ToString(stmt.loc.start.line)
                \o "-" \o ToString(stmt.loc.start.column),
     index |-> index,
     loc |-> stmt.loc,
     node |-> stmt.node,
     colorBand |-> index % 2]

RECURSIVE extractBlocksFrom(_, _)
\* body.forEach((node, index) => { if (loc) blocks.push(...) }), from index on
extractBlocksFrom(body, index) ==
    IF index >= Len(body) THEN <<>>
    ELSE (IF "start" \in DOMAIN body[index + 1].loc
              THEN <<StatementBlock(index, body[index + 1])>>
          ELSE <<>>)
             \o extractBlocksFrom(body, index + 1)

extractStatementBlocks(body) == extractBlocksFrom(body, 0)

\* the statement lists compile() is called with
Programs == {extractStatementBlocks(Located(nodes, "lines")) : nodes \in NodeLists}

----------------------------------------------------------------------------
(* The state machine: a client that compiles one program again and again,   *)
(* and may call the two reset functions between the calls                   *)

NoResult == [lines |-> <<>>, diagnostics |-> <<>>]

Init ==
    /\ statements \in Programs
    /\ labelCounter = 0
    /\ breakTargetStack = <<>>
    /\ outcome = "none"
    /\ result = NoResult
    /\ entry = [labelCounter |-> 0, breakTargetStack |-> <<>>, fresh |-> FALSE]
    /\ fresh = [labelCounter |-> FALSE, breakTargetStack |-> FALSE]
    /\ baseline = [runs |-> 0, outcome |-> "none", result |-> NoResult]
    /\ source = NULL
    /\ parseStatus = NULL

\* what the client sees of a compile() call with outcome c
Returned(c) ==
    LET isFresh == fresh.labelCounter /\ fresh.breakTargetStack
        out == IF c.thrown THEN "threw" ELSE "returned"
        res == [lines |-> c.lines, diagnostics |-> c.diagnostics]
    IN /\ labelCounter' = c.labelCounter
       /\ breakTargetStack' = c.breakTargetStack
       /\ outcome' = out
       /\ result' = res
       /\ entry' = [labelCounter |-> labelCounter, breakTargetStack |-> breakTargetStack,
                    fresh |-> isFresh]
       /\ baseline' = IF ~isFresh THEN baseline
                      ELSE IF baseline.runs = 0 THEN [runs |-> 1, outcome |-> out, result |-> res]
                      ELSE [baseline EXCEPT !.runs = 2]

\* compile(statements)
Compile ==
    /\ labelCounter <= MaxLabelCounter
    /\ Returned(compile(statements, labelCounter, breakTargetStack))
    /\ fresh' = [labelCounter |-> FALSE, breakTargetStack |-> FALSE]
    /\ UNCHANGED <<statements, source, parseStatus>>

\* a resetLabelCounter that leaves the counter as it is
resetLabelCounter_NoEffect ==
    /\ labelCounter' = labelCounter
    /\ fresh' = [fresh EXCEPT !.labelCounter = TRUE]
    /\ UNCHANGED <<statements, breakTargetStack, outcome, result, entry, baseline, source, parseStatus>>

resetLabelCounter ==
    /\ labelCounter' = 0
    /\ fresh' = [fresh EXCEPT !.labelCounter = TRUE]
    /\ UNCHANGED <<statements, breakTargetStack, outcome, result, entry, baseline, source, parseStatus>>

resetBreakTargetStack ==
    /\ breakTargetStack' = <<>>
    /\ fresh' = [fresh EXCEPT !.breakTargetStack = TRUE]
    /\ UNCHANGED <<statements, labelCounter, outcome, result, entry, baseline, source, parseStatus>>

Next == Compile \/ resetLabelCounter \/ resetBreakTargetStack

Spec == Init /\ [][Next]_vars

----------------------------------------------------------------------------
(* The parser alone: parseSource applied to one source text after the other *)

ParserInit ==
    /\ statements = <<>>
    /\ labelCounter = 0
    /\ breakTargetStack = <<>>
    /\ outcome = "none"
    /\ result = NoResult
    /\ entry = [labelCounter |-> 0, breakTargetStack |-> <<>>, fresh |-> FALSE]
    /\ fresh = [labelCounter |-> FALSE, breakTargetStack |-> FALSE]
    /\ baseline = [runs |-> 0, outcome |-> "none", result |-> NoResult]
    /\ source = NULL
    /\ parseStatus = NULL

\* parseSource(source) of a source text that parses: the statements of kind
\* "valid"; the function keeps no state, so one call per behaviour shows all it does
parseSource ==
    /\ statements = <<>>
    /\ \E nodes \in NodeLists, layout \in Layouts :
           statements' = extractStatementBlocks(Located(nodes, layout))
    /\ UNCHANGED <<labelCounter, breakTargetStack, outcome, result, entry, fresh, baseline,
                   source, parseStatus>>

ParserNext == parseSource

ParserSpec == ParserInit /\ [][ParserNext]_vars

----------------------------------------------------------------------------
(* The visualizer: BytecodeVisualizer keeps the editor's text and a          *)
(* ParseStatus, parses on every edit and compiles the current statements     *)
(* when it renders                                                           *)

\* A source text is represented by what @babel/parser makes of it: the body of
\* the program, or the message of the error it throws.
Text(nodes, layout) == [parses |-> TRUE, body |-> Located(nodes, layout)]
Broken(message) == [parses |-> FALSE, message |-> message]

\* DEFAULT_SOURCE: a comment on line 1, four statements on lines 2 to 5
DEFAULT_SOURCE ==
    LET nodes == <<VarDecl(<<Declarator(Id("num"), Num("6"))>>),
                   VarDecl(<<Declarator(Id("doubled"), Bin("*", Id("num"), Num("2")))>>),
                   VarDecl(<<Declarator(Id("sum"), Bin("+", Id("num"), Id("doubled")))>>),
                   ExprStmt(Call(Member(Id("console"), Id("log"), FALSE), <<Id("sum")>>))>>
    IN [parses |-> TRUE,
        body |-> [i \in 1..4 |-> [node |-> nodes[i], loc |-> [start |-> [line |-> i + 1, column |-> 0]]]]]

\* the programs the user types
EditedPrograms ==
    {<<>>, <<SX>>, <<VarDecl(<<Declarator(X, A)>>), SY>>, <<If(X, Block(<<SY>>), NULL)>>,
     <<While(X, Block(<<SY>>))>>, <<ExprStmt(Bin("**", A, X))>>,
     <<ExprStmt(Logical("??", X, Y)), SX>>, <<Import(<<NamedImport>>, "mod"), SX>>,
     <<Switch(X, <<Case1, Default>>)>>,
     <<ExportNamed(NULL, <<NamedExport>>)>>, <<ExportNamed(NULL, <<NamespaceExport>>)>>}

\* the texts handed to handleSourceChange
SourceTexts ==
    {Text(nodes, "lines") : nodes \in EditedPrograms}
        \cup {Text(<<SX>>, "oneLine")}
        \cup {Broken(m) : m \in {"Unexpected token (1:4)", "Unterminated string constant. (2:10)",
                                  "Missing semicolon. (1:5)"}}

\* parseSource(source)
ParseStatusOf(text) ==
    IF text.parses
        THEN [kind |-> "valid", ast |-> text.body, statements |-> extractStatementBlocks(text.body)]
    ELSE [kind |-> "invalid", error |-> [message |-> text.message], lastValid |-> NULL]

\* the updater handed to setParseStatus
nextParseStatus(prev, res) ==
    IF res.kind = "valid" THEN res
    ELSE IF prev.kind = "valid"
        THEN [kind |-> "invalid", error |-> res.error,
              lastValid |-> [ast |-> prev.ast, statements |-> prev.statements]]
    ELSE [kind |-> "invalid", error |-> res.error, lastValid |-> prev.lastValid]

\* const statements = useMemo(...): those of a valid parse, else the last valid ones
currentStatements(status) ==
    IF status.kind = "valid" THEN status.statements
    ELSE IF status.lastValid # NULL THEN status.lastValid.statements
    ELSE <<>>

\* const parseError = ...
parseError(status) == IF status.kind = "invalid" THEN status.error ELSE NULL

\* the component when its first render starts: the initial values of useState,
\* nothing compiled or shown yet
VisualizerInit ==
    /\ source = DEFAULT_SOURCE
    /\ parseStatus = ParseStatusOf(DEFAULT_SOURCE)
    /\ statements = <<>>
    /\ labelCounter = 0
    /\ breakTargetStack = <<>>
    /\ outcome = "none"
    /\ result = NoResult
    /\ entry = [labelCounter |-> 0, breakTargetStack |-> <<>>, fresh |-> FALSE]
    /\ fresh = [labelCounter |-> FALSE, breakTargetStack |-> FALSE]
    /\ baseline = [runs |-> 0, outcome |-> "none", result |-> NoResult]

\* handleSourceChange(newSource): the new values of source and parseStatus
handleSourceChange(newSource) ==
    [source |-> newSource, parseStatus |-> nextParseStatus(parseStatus, ParseStatusOf(newSource))]

\* the state a render works on: the initial state for the first render, the
\* state an edit has set for every later one
Pending ==
    IF outcome = "none" THEN {[source |-> source, parseStatus |-> parseStatus]}
    ELSE {handleSourceChange(newSource) : newSource \in SourceTexts}

\* The first render, or an edit and the render that follows it. The first render
\* and a valid parse bring a new statements array, so the memoized compile runs;
\* after a failed parse the array is the one of the render before and nothing is
\* compiled. A compile() that throws while rendering takes the component down:
\* there is no edit after that.
BytecodeVisualizer ==
    /\ outcome # "threw"
    /\ labelCounter <= MaxLabelCounter
    /\ \E next \in Pending :
           /\ source' = next.source
           /\ parseStatus' = next.parseStatus
           /\ statements' = currentStatements(next.parseStatus)
           /\ IF next.parseStatus.kind = "valid"
                  THEN /\ Returned(compile(next.parseStatus.statements, labelCounter, breakTargetStack))
                       /\ fresh' = [labelCounter |-> FALSE, breakTargetStack |-> FALSE]
              ELSE UNCHANGED <<labelCounter, breakTargetStack, outcome, result, entry, fresh, baseline>>

VisualizerNext == BytecodeVisualizer

VisualizerSpec == VisualizerInit /\ [][VisualizerNext]_vars

----------------------------------------------------------------------------
(* Vocabulary of the properties *)

\* the instructions of the last result that carry the statement id
LinesOf(id) == SelectSeq(result.lines, LAMBDA l : l.statementId = id)

\* how many instructions of lines have the opcode
CountOp(lines, op) == Cardinality({i \in 1..Len(lines) : lines[i].op = op})

OpsIn(lines) == {lines[i].op : i \in 1..Len(lines)}

JumpOps == {"JUMP", "JUMP_IF_FALSE", "JUMP_IF_TRUE"}

\* the state compile() hands to statement number i (1-based) of the program:
\* the entry state advanced over the statements before it
EnvBefore(i) ==
    LET before == compile(SubSeq(statements, 1, i - 1), entry.labelCounter, entry.breakTargetStack)
    IN Env(before.diagnostics, before.labelCounter, before.breakTargetStack, FALSE)

----------------------------------------------------------------------------
(* C1, C2: totality *)

\* C1: after compile(S), every statement id of S is the statementId of at least
\* one instruction of the result, and a statement that compiles to no
\* instruction contributes exactly one NOOP carrying its id.
C1_EveryStatementYieldsAnInstruction ==
    outcome # "none" =>
        \A i \in 1..Len(statements) :
            LET own == LinesOf(statements[i].id)
                alone == compileStatement(statements[i].node, statements[i].id, Env(<<>>, 0, <<>>, FALSE))
            IN /\ Len(own) >= 1
               /\ alone.lines = <<>> => own = <<createInstruction(statements[i].id, "NOOP", <<>>)>>

\* C2: compile() never throws, whatever statement the parser produced.
C2_CompileNeverThrows == outcome # "threw"

----------------------------------------------------------------------------
(* C3: labels *)

\* C3: in the output of one compile() call no two LABEL instructions have the
\* same name, and the target of every JUMP, JUMP_IF_FALSE and JUMP_IF_TRUE is
\* the name of exactly one LABEL of that output.
C3_LabelsUniqueAndJumpsResolve ==
    outcome = "returned" =>
        LET lines == result.lines
            labelAt == {i \in 1..Len(lines) : lines[i].op = "LABEL"}
        IN /\ \A i \in labelAt : \A j \in labelAt : lines[i].args[1] = lines[j].args[1] => i = j
           /\ \A k \in 1..Len(lines) :
                  lines[k].op \in JumpOps =>
                      Cardinality({i \in labelAt : lines[i].args[1] = lines[k].args[1]}) = 1

\* a compile() that returned nested control flow: a switch, jumps of all three
\* kinds and at least five labels
C3_Witness ==
    /\ outcome = "returned"
    /\ JumpOps \subseteq OpsIn(result.lines)
    /\ CountOp(result.lines, "LABEL") >= 5
    /\ \E i \in 1..Len(statements) : statements[i].node.type = "SwitchStatement"

----------------------------------------------------------------------------
(* C4: determinism after reset *)

\* C4: a compile() that follows calls of resetLabelCounter() and
\* resetBreakTargetStack() ends like, and returns the same lines and
\* diagnostics as, the first such compile() of the same statement list.
C4_ResetMakesCompileRepeatable ==
    (outcome # "none" /\ entry.fresh /\ baseline.runs >= 1) =>
        /\ outcome = baseline.outcome
        /\ result = baseline.result

\* a second compile() after both resets, of a program that generates labels
C4_Witness ==
    /\ baseline.runs = 2
    /\ entry.fresh
    /\ outcome = "returned"
    /\ CountOp(result.lines, "LABEL") >= 2
    /\ result.diagnostics # <<>>

----------------------------------------------------------------------------
(* C5: stack effect of an expression *)

\* the count argument of CALL, CREATE_ARRAY, CREATE_OBJECT, CONCAT_STRINGS
Count(s) == CHOOSE n \in 0..9 : ToString(n) = s

\* net number of values an instruction leaves on the stack, read off its narration
StackEffect(line) ==
    CASE line.op \in {"PUSH_CONST", "PUSH_NULL", "PUSH_UNDEFINED", "LOAD_VAR", "DUP", "ITER_HAS_NEXT"} -> 1
      [] line.op \in {"POP", "STORE_VAR", "JUMP_IF_FALSE", "JUMP_IF_TRUE", "GET_COMPUTED_PROP",
                      "ADD", "SUB", "MUL", "DIV", "MOD", "EQ", "NEQ", "LT", "GT", "LTE", "GTE"} -> -1
      [] line.op = "CALL" -> 1 - Count(line.args[2])
      [] line.op = "CALL_METHOD" -> 0 - Count(line.args[3])
      [] line.op \in {"CREATE_ARRAY", "CREATE_OBJECT", "CONCAT_STRINGS"} -> 1 - Count(line.args[1])
      [] OTHER -> 0

\* the position of the LABEL a jump goes to
Target(code, name) == CHOOSE i \in 1..Len(code) : code[i].op = "LABEL" /\ code[i].args[1] = name

\* the (position, stack height) pairs that follow <<pc, h>> in code
Step(code, pc, h) ==
    IF code[pc].op = "JUMP" THEN {<<Target(code, code[pc].args[1]), h>>}
    ELSE IF code[pc].op \in {"JUMP_IF_FALSE", "JUMP_IF_TRUE"}
        THEN {<<Target(code, code[pc].args[1]), h - 1>>, <<pc + 1, h - 1>>}
    ELSE {<<pc + 1, h + StackEffect(code[pc])>>}

\* the stack heights up to which the control paths are followed (a loop that
\* does not leave the stack as it found it has paths of every height)
MaxStack == 6

RECURSIVE Paths(_, _)
\* all (position, stack height) pairs some control path through code reaches
Paths(code, reached) ==
    LET inside == {q \in reached : q[1] <= Len(code) /\ q[2] \in (0 - MaxStack)..MaxStack}
        more == reached \cup UNION {Step(code, p[1], p[2]) : p \in inside}
    IN IF more = reached THEN reached ELSE Paths(code, more)

\* the stack heights with which control leaves code, entered with an empty stack
ExitHeights(code) == {p[2] : p \in {q \in Paths(code, {<<1, 0>>}) : q[1] = Len(code) + 1}}

\* C5, on the expressions that compile without a diagnostic and without SPREAD
\* (whose effect no count determines): the instructions compileExpression
\* returns leave exactly one value on every control path.
C5_ExpressionLeavesOneValue ==
    (outcome = "returned" /\ Len(statements) = 1
        /\ statements[1].node.type = "ExpressionStatement"
        /\ result.diagnostics = <<>> /\ "SPREAD" \notin OpsIn(result.lines)) =>
        ExitHeights(compileExpression(statements[1].node.expression, statements[1].id,
                                      EnvBefore(1)).lines) = {1}

----------------------------------------------------------------------------
(* C6: expression statements *)

\* C6: the instructions of an expression statement are the instructions of its
\* expression followed by one POP, which is the last instruction.
C6_ExpressionStatementEndsWithPop ==
    outcome = "returned" =>
        \A i \in 1..Len(statements) :
            statements[i].node.type = "ExpressionStatement" =>
                LET own == LinesOf(statements[i].id)
                    e == compileExpression(statements[i].node.expression, statements[i].id, EnvBefore(i))
                IN /\ Len(own) = Len(e.lines) + 1
                   /\ SubSeq(own, 1, Len(own) - 1) = instructions(e.lines)
                   /\ own[Len(own)].op = "POP"
                   /\ own[Len(own)].args = <<>>

\* an expression statement with a compound expression, compiled as the second statement
C6_Witness ==
    /\ outcome = "returned"
    /\ Len(statements) >= 2
    /\ statements[2].node.type = "ExpressionStatement"
    /\ Len(LinesOf(statements[2].id)) >= 4

----------------------------------------------------------------------------
(* C7, C8: instruction factory and narration table *)

RECURSIVE SpaceSeparated(_)
\* the strings of args, each preceded by one space
SpaceSeparated(args) ==
    IF args = <<>> THEN ""
    ELSE SpaceSeparated(SubSeq(args, 1, Len(args) - 1)) \o " " \o args[Len(args)]

\* C7: every instruction has a non-empty english that only (op, args) determine,
\* and its text is op alone without args, else op and the args separated by
\* single spaces, nothing after the last.
C7_TextAndEnglishOfInstruction ==
    outcome = "returned" =>
        \A i \in 1..Len(result.lines) :
            LET line == result.lines[i]
            IN /\ Len(line.english) > 0
               /\ line.text = line.op \o SpaceSeparated(line.args)
               /\ \A j \in 1..Len(result.lines) :
                      (result.lines[j].op = line.op /\ result.lines[j].args = line.args) =>
                          result.lines[j].english = line.english

\* a result with an argument-less instruction and an instruction with
\* arguments that is emitted for two different statements
C7_Witness ==
    /\ outcome = "returned"
    /\ \E i \in 1..Len(result.lines) : result.lines[i].args = <<>>
    /\ \E i \in 1..Len(result.lines) :
           /\ Len(result.lines[i].args) >= 1
           /\ \E j \in 1..Len(result.lines) :
                  /\ result.lines[j].op = result.lines[i].op
                  /\ result.lines[j].args = result.lines[i].args
                  /\ result.lines[j].statementId # result.lines[i].statementId

\* C8: every emitted opcode has its own entry in the narrations table; the
\* fallback sentence never is the english of an emitted instruction.
C8_NarrationTableCoversEmittedOpcodes ==
    outcome = "returned" =>
        \A i \in 1..Len(result.lines) :
            /\ result.lines[i].op \in narrationOps
            /\ result.lines[i].english # "Execute " \o result.lines[i].op \o " operation."

\* a result that uses the iterator, spread, template and switch opcodes
C8_Witness ==
    /\ outcome = "returned"
    /\ \E op \in {"GET_ITERATOR", "SPREAD", "CONCAT_STRINGS", "JUMP_IF_TRUE", "GET_COMPUTED_PROP",
                  "CREATE_OBJECT", "TO_STRING", "DUP"} : op \in OpsIn(result.lines)
    /\ Len(result.lines) >= 8

----------------------------------------------------------------------------
(* C9: switch *)

RECURSIVE SwitchTriplets(_, _, _, _)
\* for each non-default case from case i on: DUP, the test, EQ, JUMP_IF_TRUE(its label)
SwitchTriplets(cases, labels, i, ctx) ==
    IF i > Len(cases) THEN R(<<>>, ctx.env)
    ELSE IF cases[i].test.type = "null" THEN SwitchTriplets(cases, labels, i + 1, ctx)
    ELSE LET t == compileExpression(cases[i].test, ctx.id, ctx.env)
             rest == SwitchTriplets(cases, labels, i + 1, [ctx EXCEPT !.env = t.env])
         IN [lines |-> <<emit(ctx.id, "DUP", <<>>)>> \o t.lines
                           \o <<emit(ctx.id, "EQ", <<>>),
                                emit(ctx.id, "JUMP_IF_TRUE", <<labels[i]>>)>>
                           \o rest.lines,
             env |-> rest.env]

RECURSIVE SwitchBodies(_, _, _, _)
\* for each case from case i on: LABEL(its label), then its body, nothing between two cases
SwitchBodies(cases, labels, i, ctx) ==
    IF i > Len(cases) THEN R(<<>>, ctx.env)
    ELSE LET b == compileStatements(cases[i].consequent, ctx.id, ctx.env)
             rest == SwitchBodies(cases, labels, i + 1, [ctx EXCEPT !.env = b.env])
         IN [lines |-> <<emit(ctx.id, "LABEL", <<labels[i]>>)>> \o b.lines \o rest.lines,
             env |-> rest.env]

RECURSIVE InnerLines(_, _, _)
\* the instructions of the test expressions and of the case bodies alone
InnerLines(cases, i, ctx) ==
    IF i > Len(cases) THEN <<>>
    ELSE LET t == IF cases[i].test.type = "null" THEN R(<<>>, ctx.env)
                  ELSE compileExpression(cases[i].test, ctx.id, ctx.env)
             b == compileStatements(cases[i].consequent, ctx.id, t.env)
         IN t.lines \o b.lines \o InnerLines(cases, i + 1, [ctx EXCEPT !.env = b.env])

\* what the claim says a switch compiled in state env emits
SwitchShape(node, id, env) ==
    LET cases == node.cases
        end == "switch_end_" \o ToString(env.labelCounter)
        inSwitch == [env EXCEPT !.labelCounter = @ + 1, !.breakTargetStack = Append(@, end)]
        d == compileExpression(node.discriminant, id, inSwitch)
        labels == [i \in 1..Len(cases) |->
                      (IF cases[i].test.type = "null" THEN "switch_default_" ELSE "switch_case_")
                          \o ToString(d.env.labelCounter + i - 1)]
        defaults == {i \in 1..Len(cases) : cases[i].test.type = "null"}
        labelled == [d.env EXCEPT !.labelCounter = @ + Len(cases)]
        triplets == SwitchTriplets(cases, labels, 1, [id |-> id, env |-> labelled])
        bodies == SwitchBodies(cases, labels, 1, [id |-> id, env |-> triplets.env])
    IN d.lines
           \o triplets.lines
           \o <<emit(id, "JUMP",
                    <<IF defaults = {} THEN end ELSE labels[CHOOSE i \in defaults : TRUE]>>)>>
           \o bodies.lines
           \o <<emit(id, "LABEL", <<end>>), emit(id, "POP", <<>>)>>

\* the instructions of the parts of a switch (discriminant, tests, bodies), in any order
SwitchParts(node, id, env) ==
    LET end == "switch_end_" \o ToString(env.labelCounter)
        inSwitch == [env EXCEPT !.labelCounter = @ + 1, !.breakTargetStack = Append(@, end)]
        d == compileExpression(node.discriminant, id, inSwitch)
    IN d.lines \o InnerLines(node.cases, 1, [id |-> id, env |-> d.env])

\* C9: a switch emits the discriminant once, a DUP / test / EQ / JUMP_IF_TRUE
\* group per non-default case in source order, one JUMP to the default label
\* (to the end label without a default), every case's LABEL and body in source
\* order, LABEL(end) and POP: of its own N triplets for N non-default cases,
\* one LABEL per case and one for the end.
C9_SwitchShape ==
    outcome = "returned" =>
        \A i \in 1..Len(statements) :
            statements[i].node.type = "SwitchStatement" =>
                LET node == statements[i].node
                    own == LinesOf(statements[i].id)
                    parts == SwitchParts(node, statements[i].id, EnvBefore(i))
                    n == Cardinality({k \in 1..Len(node.cases) : node.cases[k].test.type # "null"})
                    ownCount(op) == CountOp(own, op) - CountOp(parts, op)
                IN /\ own = instructions(SwitchShape(node, statements[i].id, EnvBefore(i)))
                   /\ ownCount("DUP") = n
                   /\ ownCount("EQ") = n
                   /\ ownCount("JUMP_IF_TRUE") = n
                   /\ ownCount("LABEL") = Len(node.cases) + 1

\* a switch with two non-default cases around a default case
C9_Witness ==
    /\ outcome = "returned"
    /\ \E i \in 1..Len(statements) :
           /\ statements[i].node.type = "SwitchStatement"
           /\ Len(statements[i].node.cases) = 3
           /\ statements[i].node.cases[2].test.type = "null"
           /\ CountOp(LinesOf(statements[i].id), "JUMP_IF_TRUE") = 2

----------------------------------------------------------------------------
(* C10: if *)

\* what the claim says an if statement compiled in state env emits
IfShape(node, id, env) ==
    IF node.alternate.type = "null"
        THEN LET end == "if_end_" \o ToString(env.labelCounter)
                 t == compileExpression(node.test, id, [env EXCEPT !.labelCounter = @ + 1])
                 c == compileBlock(node.consequent, id, t.env)
             IN [lines |-> t.lines \o <<emit(id, "JUMP_IF_FALSE", <<end>>)>>
                               \o c.lines \o <<emit(id, "LABEL", <<end>>)>>,
                 parts |-> t.lines \o c.lines,
                 labels |-> 1, jumps |-> 0]
    ELSE LET else == "if_else_" \o ToString(env.labelCounter)
             end == "if_end_" \o ToString(env.labelCounter + 1)
             t == compileExpression(node.test, id, [env EXCEPT !.labelCounter = @ + 2])
             c == compileBlock(node.consequent, id, t.env)
             a == compileBlock(node.alternate, id, c.env)
         IN [lines |-> t.lines \o <<emit(id, "JUMP_IF_FALSE", <<else>>)>>
                           \o c.lines
                           \o <<emit(id, "JUMP", <<end>>),
                                emit(id, "LABEL", <<else>>)>>
                           \o a.lines \o <<emit(id, "LABEL", <<end>>)>>,
             parts |-> t.lines \o c.lines \o a.lines,
             labels |-> 2, jumps |-> 1]

\* C10: an if without alternate emits test, JUMP_IF_FALSE(end), consequent,
\* LABEL(end): one LABEL and no JUMP of its own; an if with alternate emits
\* test, JUMP_IF_FALSE(else), consequent, JUMP(end), LABEL(else), alternate,
\* LABEL(end): two LABELs with different names and one JUMP of its own.
C10_IfShape ==
    outcome = "returned" =>
        \A i \in 1..Len(statements) :
            statements[i].node.type = "IfStatement" =>
                LET own == LinesOf(statements[i].id)
                    shape == IfShape(statements[i].node, statements[i].id, EnvBefore(i))
                    ownLabels == {k \in 1..Len(own) :
                                     /\ own[k].op = "LABEL"
                                     /\ \A j \in 1..Len(shape.parts) :
                                            instructions(shape.parts)[j] # own[k]}
                IN /\ own = instructions(shape.lines)
                   /\ CountOp(own, "LABEL") - CountOp(shape.parts, "LABEL") = shape.labels
                   /\ CountOp(own, "JUMP") - CountOp(shape.parts, "JUMP") = shape.jumps
                   /\ Cardinality({own[k].args[1] : k \in ownLabels}) = shape.labels

\* an if without alternate followed by an if with alternate
C10_Witness ==
    /\ outcome = "returned"
    /\ Len(statements) = 2
    /\ statements[1].node.type = "IfStatement" /\ statements[1].node.alternate.type = "null"
    /\ statements[2].node.type = "IfStatement" /\ statements[2].node.alternate.type # "null"
    /\ entry.labelCounter > 0

----------------------------------------------------------------------------
(* C11: UNSUPPORTED and diagnostics come in pairs *)

\* the UNSUPPORTED instructions of lines, in output order
Unsupported(lines) == SelectSeq(lines, LAMBDA l : l.op = "UNSUPPORTED")

\* C11: a compile() result has as many diagnostics as UNSUPPORTED instructions,
\* and the k-th diagnostic carries the statementId of the k-th UNSUPPORTED
\* instruction.
C11_DiagnosticsPairWithUnsupported ==
    outcome = "returned" =>
        LET u == Unsupported(result.lines)
        IN /\ Len(result.diagnostics) = Len(u)
           /\ \A k \in 1..Len(u) : result.diagnostics[k].statementId = u[k].statementId

\* diagnostics of two different statements in one result
C11_Witness ==
    /\ outcome = "returned"
    /\ Len(result.diagnostics) >= 2
    /\ result.diagnostics[1].statementId # result.diagnostics[2].statementId

----------------------------------------------------------------------------
(* C12: variable declarations *)

\* t occurs in s
Contains(s, t) == \E i \in 1..(Len(s) - Len(t) + 1) : SubSeq(s, i, i + Len(t) - 1) = t

RECURSIVE DeclaratorsShape(_, _, _)
\* what the claim says the declarators emit in state env, one after the other;
\* the diagnostic of a destructuring target is recorded by the word the claim asks for
DeclaratorsShape(declarations, id, env) ==
    IF declarations = <<>> THEN R(<<>>, env)
    ELSE LET d == Head(declarations)
             one == IF d.id.type = "Identifier"
                        THEN IF d.init.type = "null"
                                 THEN R(<<emit(id, "DECLARE_VAR", <<d.id.name>>)>>, env)
                             ELSE LET init == compileExpression(d.init, id, env)
                                  IN R(<<emit(id, "DECLARE_VAR", <<d.id.name>>)>> \o init.lines
                                           \o <<emit(id, "STORE_VAR", <<d.id.name>>)>>,
                                       init.env)
                    ELSE R(<<emit(id, "UNSUPPORTED", <<"DestructuringPattern">>)>>,
                           [env EXCEPT !.diagnostics =
                               Append(@, [statementId |-> id, message |-> "Destructuring"])])
             rest == DeclaratorsShape(Tail(declarations), id, one.env)
         IN R(one.lines \o rest.lines, rest.env)

\* C12: a variable declaration emits, declarator by declarator, DECLARE_VAR(name)
\* with the initializer and STORE_VAR(name) when there is one, or one
\* UNSUPPORTED(DestructuringPattern) with one diagnostic containing
\* "Destructuring"; siblings of a diagnosed declarator still compile and the
\* instruction list is not empty.
C12_DeclaratorsCompileIndependently ==
    outcome = "returned" =>
        \A i \in 1..Len(statements) :
            statements[i].node.type = "VariableDeclaration" =>
                LET own == LinesOf(statements[i].id)
                    shape == DeclaratorsShape(statements[i].node.declarations, statements[i].id,
                                              EnvBefore(i))
                    expected == shape.env.diagnostics
                IN /\ own = instructions(shape.lines)
                   /\ own # <<>>
                   /\ Len(result.diagnostics) >= Len(expected)
                   /\ \A k \in 1..Len(expected) :
                          /\ result.diagnostics[k].statementId = expected[k].statementId
                          /\ IF expected[k].message = "Destructuring"
                                 THEN Contains(result.diagnostics[k].message, "Destructuring")
                             ELSE result.diagnostics[k] = expected[k]

\* a declaration whose destructuring declarator stands between two identifier declarators
C12_Witness ==
    /\ outcome = "returned"
    /\ Len(statements) = 1
    /\ statements[1].node.type = "VariableDeclaration"
    /\ \E j \in 2..Len(result.lines) :
           /\ result.lines[j - 1].op = "UNSUPPORTED"
           /\ result.lines[j].op = "DECLARE_VAR"
    /\ result.lines[1].op = "DECLARE_VAR"
    /\ Len(result.diagnostics) = 1

----------------------------------------------------------------------------
(* C13: statement ids of the output *)

\* the position in the program of the statement with this id, 0 when there is none
IndexOf(id) ==
    IF \E i \in 1..Len(statements) : statements[i].id = id
        THEN CHOOSE i \in 1..Len(statements) : statements[i].id = id
    ELSE 0

\* C13: every instruction of compile(S).lines carries the id of a statement of
\* S, nested statements included, and the output is one contiguous run of
\* instructions per statement, the runs in input order.
C13_OneRunPerStatementInOrder ==
    outcome = "returned" =>
        LET lines == result.lines
        IN /\ \A k \in 1..Len(lines) : IndexOf(lines[k].statementId) # 0
           /\ \A k \in 1..Len(lines) : \A l \in k..Len(lines) :
                  IndexOf(lines[k].statementId) <= IndexOf(lines[l].statementId)
           /\ \A i \in 1..Len(statements) : \E k \in 1..Len(lines) : lines[k].statementId = statements[i].id

\* a switch with case bodies, then an if with a block: instructions of nested
\* statements in both runs
C13_Witness ==
    /\ outcome = "returned"
    /\ Len(statements) = 2
    /\ statements[1].node.type = "SwitchStatement"
    /\ statements[2].node.type = "IfStatement"
    /\ Len(LinesOf(statements[1].id)) >= 8
    /\ Len(LinesOf(statements[2].id)) >= 4

----------------------------------------------------------------------------
(* C14: statement blocks of the parser *)

\* C14: the blocks parseSource returns have pairwise distinct ids of the form
\* stmt-{index}-{line}-{column}, index is the position in the program body and
\* colorBand is index mod 2.
C14_BlockIdsIndexAndBand ==
    \A i \in 1..Len(statements) :
        LET b == statements[i]
        IN /\ b.index = i - 1
           /\ b.colorBand = b.index % 2
           /\ b.id = "stmt-" \o ToString(b.index) \o "-" \o ToString(b.loc.start.line)
                        \o "-" \o ToString(b.loc.start.column)
           /\ \A j \in 1..Len(statements) : statements[j].id = b.id => j = i

\* two statements that start on the same line
C14_Witness ==
    /\ Len(statements) = 2
    /\ statements[1].loc.start.line = statements[2].loc.start.line
    /\ statements[1].colorBand = 0
    /\ statements[2].colorBand = 1

----------------------------------------------------------------------------
(* C15, C16: break *)

\* the state after n labels were generated in env
Skip(env, n) == [env EXCEPT !.labelCounter = @ + n]

\* a for-in / for-of loop whose target is an identifier, declared or existing
IdentifierLoop(node) ==
    \/ node.left.type = "Identifier"
    \/ /\ node.left.type = "VariableDeclaration"
       /\ node.left.declarations[1].id.type = "Identifier"

RECURSIVE SwitchJumps(_, _, _, _)
RECURSIVE SwitchJumpsIn(_, _, _, _)
RECURSIVE SwitchJumpsOfCases(_, _, _, _)

\* the targets of the jumps to switch end labels that the statement node,
\* compiled in state env inside the switch with end label top ("" outside of
\* every switch), has to emit, in source order: top for a break, and for a
\* switch without default case its own end label ahead of its case bodies
SwitchJumps(node, top, id, env) ==
    CASE node.type = "BreakStatement" -> IF top = "" THEN <<>> ELSE <<top>>
      [] node.type = "BlockStatement" -> SwitchJumpsIn(node.body, top, id, env)
      [] node.type = "IfStatement" ->
            LET labels == IF node.alternate.type = "null" THEN 1 ELSE 2
                t == compileExpression(node.test, id, Skip(env, labels))
                c == compileBlock(node.consequent, id, t.env)
            IN SwitchJumps(node.consequent, top, id, t.env)
                   \o (IF node.alternate.type = "null" THEN <<>>
                       ELSE SwitchJumps(node.alternate, top, id, c.env))
      [] node.type = "WhileStatement" ->
            SwitchJumps(node.body, top, id, compileExpression(node.test, id, Skip(env, 2)).env)
      [] node.type \in {"ForInStatement", "ForOfStatement"} ->
            IF IdentifierLoop(node)
                THEN SwitchJumps(node.body, top, id, compileExpression(node.right, id, Skip(env, 2)).env)
            ELSE <<>>
      [] node.type = "FunctionDeclaration" -> SwitchJumps(node.body, top, id, Skip(env, 2))
      [] node.type = "SwitchStatement" ->
            LET end == "switch_end_" \o ToString(env.labelCounter)
                inside == [Skip(env, 1) EXCEPT !.breakTargetStack = Append(@, end)]
                d == compileExpression(node.discriminant, id, inside)
                tests == compileCaseTests(node.cases, [i \in 1..Len(node.cases) |-> ""], 1,
                                          [statementId |-> id, env |-> Skip(d.env, Len(node.cases))])
            IN (IF \E i \in 1..Len(node.cases) : node.cases[i].test.type = "null" THEN <<>> ELSE <<end>>)
                   \o SwitchJumpsOfCases(node.cases, end, id, tests.env)
      [] OTHER -> <<>>

\* SwitchJumps of the statements of a list, compiled one after the other
SwitchJumpsIn(stmts, top, id, env) ==
    IF stmts = <<>> THEN <<>>
    ELSE SwitchJumps(Head(stmts), top, id, env)
             \o SwitchJumpsIn(Tail(stmts), top, id, compileStatement(Head(stmts), id, env).env)

\* SwitchJumps of the bodies of the cases of the switch with end label end
SwitchJumpsOfCases(cases, end, id, env) ==
    IF cases = <<>> THEN <<>>
    ELSE SwitchJumpsIn(Head(cases).consequent, end, id, env)
             \o SwitchJumpsOfCases(Tail(cases), end, id,
                                   compileStatements(Head(cases).consequent, id, env).env)

\* the targets of the JUMP instructions of lines that go to a switch end label
JumpsToSwitchEnd(lines) ==
    LET jumps == SelectSeq(lines, LAMBDA l : /\ l.op = "JUMP"
                                            /\ Len(l.args[1]) > 11
                                            /\ SubSeq(l.args[1], 1, 11) = "switch_end_")
    IN [k \in 1..Len(jumps) |-> jumps[k].args[1]]

\* C15: every break compiled inside a switch emits exactly one JUMP, to the end
\* label of the innermost enclosing switch: also from inside a loop or an if of
\* that switch, and to the outer end label again after an inner switch.
C15_BreakJumpsToInnermostSwitchEnd ==
    outcome = "returned" =>
        \A i \in 1..Len(statements) :
            JumpsToSwitchEnd(LinesOf(statements[i].id))
                = SwitchJumps(statements[i].node, "", statements[i].id, EnvBefore(i))

\* a switch whose case holds an inner switch with a break, then a break of its own
C15_Witness ==
    /\ outcome = "returned"
    /\ Len(statements) = 1
    /\ statements[1].node.type = "SwitchStatement"
    /\ LET jumps == JumpsToSwitchEnd(result.lines)
       IN \E k \in 2..Len(jumps) :
              /\ jumps[k] = "switch_end_" \o ToString(entry.labelCounter)
              /\ jumps[k - 1] # jumps[k]
              /\ \E j \in 1..Len(result.lines) :
                     result.lines[j].op = "LABEL" /\ result.lines[j].args = <<jumps[k - 1]>>
                         /\ \E m \in (j + 1)..Len(result.lines) :
                                result.lines[m].op = "JUMP" /\ result.lines[m].args = <<jumps[k]>>

RECURSIVE BareBreaks(_)
RECURSIVE BareBreaksIn(_)

\* the number of break statements of node that no switch encloses
BareBreaks(node) ==
    CASE node.type = "BreakStatement" -> 1
      [] node.type = "BlockStatement" -> BareBreaksIn(node.body)
      [] node.type = "IfStatement" ->
            BareBreaks(node.consequent)
                + (IF node.alternate.type = "null" THEN 0 ELSE BareBreaks(node.alternate))
      [] node.type = "WhileStatement" -> BareBreaks(node.body)
      [] node.type \in {"ForInStatement", "ForOfStatement"} ->
            IF IdentifierLoop(node) THEN BareBreaks(node.body) ELSE 0
      [] node.type = "FunctionDeclaration" -> BareBreaks(node.body)
      [] OTHER -> 0

BareBreaksIn(stmts) ==
    IF stmts = <<>> THEN 0 ELSE BareBreaks(Head(stmts)) + BareBreaksIn(Tail(stmts))

\* C16: a break compiled with an empty break-target stack emits one
\* UNSUPPORTED(BreakOutsideSwitch) and one diagnostic and no JUMP, and the
\* statements after it compile as they do after a break that has a target.
C16_BreakOutsideSwitchIsDiagnosed ==
    outcome = "returned" =>
        \A i \in 1..Len(statements) :
            LET own == LinesOf(statements[i].id)
                id == statements[i].id
                compiled == compileStatement(statements[i].node, id,
                                             [EnvBefore(i) EXCEPT !.breakTargetStack = <<"outer">>])
                inSwitch == instructions(IF compiled.lines = <<>> THEN <<emit(id, "NOOP", <<>>)>>
                                         ELSE compiled.lines)
                bare == {k \in 1..Len(inSwitch) :
                            inSwitch[k].op = "JUMP" /\ inSwitch[k].args = <<"outer">>}
                diagnosed == {k \in 1..Len(result.diagnostics) :
                                 result.diagnostics[k] =
                                     [statementId |-> id, message |-> "Break statement outside of switch"]}
            IN /\ Len(own) = Len(inSwitch)
               /\ \A k \in 1..Len(own) :
                      IF k \in bare
                          THEN own[k].op = "UNSUPPORTED" /\ own[k].args = <<"BreakOutsideSwitch">>
                      ELSE own[k] = inSwitch[k]
               /\ Cardinality(bare) = BareBreaks(statements[i].node)
               /\ Cardinality(diagnosed) = BareBreaks(statements[i].node)
               /\ BareBreaks(statements[i].node) > 0 =>
                      \A j \in (i + 1)..Len(statements) : Len(LinesOf(statements[j].id)) >= 1

\* a break in a while loop outside of every switch, with a statement after it in
\* the loop body or in the program
C16_Witness ==
    /\ outcome = "returned"
    /\ statements # <<>>
    /\ statements[1].node.type = "WhileStatement"
    /\ \E k \in 2..Len(result.lines) :
           /\ result.lines[k - 1].op = "UNSUPPORTED"
           /\ result.lines[k - 1].args = <<"BreakOutsideSwitch">>
           /\ result.lines[k].op = "LOAD_VAR"
    /\ Len(result.diagnostics) = 1

----------------------------------------------------------------------------
(* C17: the break-target stack is balanced *)

RECURSIVE Balanced(_, _, _, _)
RECURSIVE BalancedIn(_, _, _, _)
RECURSIVE BalancedCases(_, _, _, _)

\* node is compiled in state env with depth labels on the stack, so are the
\* statements nested in it (one label more inside each switch), and node
\* leaves the stack as it found it
Balanced(node, depth, id, env) ==
    /\ Len(env.breakTargetStack) = depth
    /\ compileStatement(node, id, env).env.breakTargetStack = env.breakTargetStack
    /\ CASE node.type = "BlockStatement" -> BalancedIn(node.body, depth, id, env)
         [] node.type = "IfStatement" ->
               LET labels == IF node.alternate.type = "null" THEN 1 ELSE 2
                   t == compileExpression(node.test, id, Skip(env, labels))
                   c == compileBlock(node.consequent, id, t.env)
               IN /\ Balanced(node.consequent, depth, id, t.env)
                  /\ node.alternate.type # "null" => Balanced(node.alternate, depth, id, c.env)
         [] node.type = "WhileStatement" ->
               Balanced(node.body, depth, id, compileExpression(node.test, id, Skip(env, 2)).env)
         [] node.type \in {"ForInStatement", "ForOfStatement"} ->
               IdentifierLoop(node) =>
                   Balanced(node.body, depth, id, compileExpression(node.right, id, Skip(env, 2)).env)
         [] node.type = "FunctionDeclaration" -> Balanced(node.body, depth, id, Skip(env, 2))
         [] node.type = "SwitchStatement" ->
               LET pushed == pushBreakTarget(Skip(env, 1), "switch_end_" \o ToString(env.labelCounter))
                   d == compileExpression(node.discriminant, id, pushed)
                   tests == compileCaseTests(node.cases, [i \in 1..Len(node.cases) |-> ""], 1,
                                             [statementId |-> id, env |-> Skip(d.env, Len(node.cases))])
               IN BalancedCases(node.cases, depth + 1, id, tests.env)
         [] OTHER -> TRUE

BalancedIn(stmts, depth, id, env) ==
    \/ stmts = <<>>
    \/ /\ Balanced(Head(stmts), depth, id, env)
       /\ BalancedIn(Tail(stmts), depth, id, compileStatement(Head(stmts), id, env).env)

BalancedCases(cases, depth, id, env) ==
    \/ cases = <<>>
    \/ /\ BalancedIn(Head(cases).consequent, depth, id, env)
       /\ BalancedCases(Tail(cases), depth, id, compileStatements(Head(cases).consequent, id, env).env)

----------------------------------------------------------------------------
(* C18: stack effect of a statement *)

\* C18, on the statements without template literal (see C5) and without SPREAD:
\* a variable declaration, expression statement, if, while, for-in, for-of or
\* switch that compiles without diagnostics leaves the stack as it found it
\* on every control path.
C18_StatementsAreStackNeutral ==
    (outcome = "returned" /\ result.diagnostics = <<>>
        /\ {"SPREAD", "CONCAT_STRINGS"} \cap OpsIn(result.lines) = {}) =>
        \A i \in 1..Len(statements) :
            statements[i].node.type \in {"VariableDeclaration", "ExpressionStatement", "IfStatement",
                                         "WhileStatement", "ForInStatement", "ForOfStatement",
                                         "SwitchStatement"} =>
                ExitHeights(LinesOf(statements[i].id)) = {0}

----------------------------------------------------------------------------
(* C19: logical expressions *)

\* what the claim says a logical expression compiled in state env emits
LogicalShape(node, id, env) ==
    LET end == "logical_end_" \o ToString(env.labelCounter)
        l == compileExpression(node.left, id, Skip(env, 1))
    IN IF node.operator = "??"
           THEN LET notNull == "not_nullish_" \o ToString(l.env.labelCounter)
                    r == compileExpression(node.right, id, Skip(l.env, 1))
                IN l.lines
                       \o <<emit(id, "DUP", <<>>), emit(id, "PUSH_NULL", <<>>), emit(id, "EQ", <<>>),
                            emit(id, "JUMP_IF_FALSE", <<notNull>>), emit(id, "POP", <<>>)>>
                       \o r.lines
                       \o <<emit(id, "JUMP", <<end>>), emit(id, "LABEL", <<notNull>>),
                            emit(id, "LABEL", <<end>>)>>
       ELSE LET r == compileExpression(node.right, id, l.env)
            IN l.lines
                   \o <<emit(id, "DUP", <<>>),
                        emit(id, IF node.operator = "&&" THEN "JUMP_IF_FALSE" ELSE "JUMP_IF_TRUE", <<end>>),
                        emit(id, "POP", <<>>)>>
                   \o r.lines
                   \o <<emit(id, "LABEL", <<end>>)>>

\* the stack heights with which control reaches the last instruction of code
HeightsAtEnd(code) == {p[2] : p \in {q \in Paths(code, {<<1, 0>>}) : q[1] = Len(code)}}

\* the positions from which control reaches the last instruction of code
WaysToEnd(code) ==
    {p[1] : p \in {q \in Paths(code, {<<1, 0>>}) :
                       q[1] < Len(code) /\ \E s \in Step(code, q[1], q[2]) : s[1] = Len(code)}}

\* C19: && and || emit left, DUP, JUMP_IF_FALSE(end) resp. JUMP_IF_TRUE(end), POP,
\* right, LABEL(end); ?? emits left, DUP, PUSH_NULL, EQ, JUMP_IF_FALSE(notNull),
\* POP, right, JUMP(end), LABEL(notNull), LABEL(end); LABEL(end) is reached on
\* the short-circuit path and on the fall-through path with one value on the stack.
C19_LogicalShapeAndStack ==
    outcome = "returned" =>
        \A i \in 1..Len(statements) :
            (statements[i].node.type = "ExpressionStatement"
                /\ statements[i].node.expression.type = "LogicalExpression") =>
                LET own == LinesOf(statements[i].id)
                    code == SubSeq(own, 1, Len(own) - 1)
                IN /\ code = instructions(LogicalShape(statements[i].node.expression,
                                                       statements[i].id, EnvBefore(i)))
                   /\ HeightsAtEnd(code) = {1}
                   /\ Cardinality(WaysToEnd(code)) >= 2

\* a ?? whose left operand is an && or ||, or the other way round
C19_Witness ==
    /\ outcome = "returned"
    /\ Len(statements) = 1
    /\ statements[1].node.type = "ExpressionStatement"
    /\ statements[1].node.expression.type = "LogicalExpression"
    /\ statements[1].node.expression.left.type = "LogicalExpression"
    /\ "PUSH_NULL" \in OpsIn(result.lines)
    /\ {"JUMP_IF_TRUE", "JUMP_IF_FALSE"} \subseteq OpsIn(result.lines)

----------------------------------------------------------------------------
(* C20: method calls *)

\* the callee is a non-computed member access whose object is an identifier
SingleLevelMember(callee) ==
    /\ callee.type = "MemberExpression"
    /\ ~callee.computed
    /\ callee.property.type = "Identifier"
    /\ callee.object.type = "Identifier"

\* C20: a call through a computed member or through a member chain of more than
\* one level yields a diagnostic and an UNSUPPORTED instruction; CALL_METHOD
\* without a diagnostic is emitted only for a single-level non-computed member
\* access on an identifier.
C20_OnlySingleLevelMethodCalls ==
    outcome = "returned" =>
        \A i \in 1..Len(statements) :
            (statements[i].node.type = "ExpressionStatement"
                /\ statements[i].node.expression.type = "CallExpression"
                /\ statements[i].node.expression.callee.type = "MemberExpression") =>
                LET callee == statements[i].node.expression.callee
                    own == LinesOf(statements[i].id)
                    diagnosed == \E k \in 1..Len(result.diagnostics) :
                                     result.diagnostics[k].statementId = statements[i].id
                IN IF SingleLevelMember(callee)
                       THEN "CALL_METHOD" \in OpsIn(own) /\ ~diagnosed
                   ELSE diagnosed /\ "UNSUPPORTED" \in OpsIn(own) /\ "CALL_METHOD" \notin OpsIn(own)

----------------------------------------------------------------------------
(* C21: call expressions *)

RECURSIVE ArgumentsInOrder(_, _, _, _)
\* the instructions of the arguments from number k on, one after the other
ArgumentsInOrder(arguments, k, id, env) ==
    IF k > Len(arguments) THEN R(<<>>, env)
    ELSE LET a == compileExpression(arguments[k], id, env)
             rest == ArgumentsInOrder(arguments, k + 1, id, a.env)
         IN R(a.lines \o rest.lines, rest.env)

\* the last instruction of a sequence
Last(lines) == lines[Len(lines)]

\* C21: the instructions of a call start with those of its arguments in source
\* order; an identifier callee then gives CALL(name, argCount), a non-computed
\* method callee gives the object's instructions and CALL_METHOD(objectName,
\* methodName, argCount); argCount is the number of argument nodes; the arguments
\* are there on the diagnosed callee paths too.
C21_ArgumentsThenCallee ==
    outcome = "returned" =>
        \A i \in 1..Len(statements) :
            (statements[i].node.type = "ExpressionStatement"
                /\ statements[i].node.expression.type = "CallExpression") =>
                LET call == statements[i].node.expression
                    id == statements[i].id
                    own == LinesOf(id)
                    code == SubSeq(own, 1, Len(own) - 1)
                    a == ArgumentsInOrder(call.arguments, 1, id, EnvBefore(i))
                    args == instructions(a.lines)
                    n == Len(args)
                    argCount == ToString(Len(call.arguments))
                IN /\ Len(code) > n
                   /\ SubSeq(code, 1, n) = args
                   /\ call.callee.type = "Identifier" =>
                          /\ Len(code) = n + 1
                          /\ Last(code).op = "CALL"
                          /\ Last(code).args = <<call.callee.name, argCount>>
                   /\ (call.callee.type = "MemberExpression" /\ ~call.callee.computed) =>
                          LET o == instructions(compileExpression(call.callee.object, id, a.env).lines)
                          IN /\ Len(code) = n + Len(o) + 1
                             /\ SubSeq(code, n + 1, n + Len(o)) = o
                             /\ Last(code).op = "CALL_METHOD"
                             /\ Len(Last(code).args) = 3
                             /\ Last(code).args[2] = call.callee.property.name
                             /\ Last(code).args[3] = argCount
                   /\ ~(call.callee.type = "Identifier"
                           \/ (call.callee.type = "MemberExpression" /\ ~call.callee.computed)) =>
                          /\ Len(code) = n + 1
                          /\ Last(code).op = "UNSUPPORTED"

\* a call of an identifier with two arguments has been compiled
C21_Witness ==
    /\ outcome = "returned"
    /\ Len(statements) = 1
    /\ statements[1].node.type = "ExpressionStatement"
    /\ statements[1].node.expression.type = "CallExpression"
    /\ Len(statements[1].node.expression.arguments) = 2
    /\ \E k \in 1..Len(result.lines) :
           result.lines[k].op = "CALL" /\ result.lines[k].args[2] = "2"

----------------------------------------------------------------------------
(* C22: binary expressions *)

\* the opcode the claim gives for an operator, "" for an operator without one
TableOpcode(operator) ==
    CASE operator = "+" -> "ADD"
      [] operator = "-" -> "SUB"
      [] operator = "*" -> "MUL"
      [] operator = "/" -> "DIV"
      [] operator = "%" -> "MOD"
      [] operator \in {"==", "==="} -> "EQ"
      [] operator \in {"!=", "!=="} -> "NEQ"
      [] operator = "<" -> "LT"
      [] operator = ">" -> "GT"
      [] operator = "<=" -> "LTE"
      [] operator = ">=" -> "GTE"
      [] OTHER -> ""

\* the one instruction that follows the operands
OperatorInstruction(operator, id) ==
    IF TableOpcode(operator) # "" THEN emit(id, TableOpcode(operator), <<>>)
    ELSE emit(id, "UNSUPPORTED", <<"BinaryOp(" \o operator \o ")">>)

RECURSIVE PostOrder(_, _, _)
\* the expression tree in post-order: binary nodes give their operator's
\* instruction after their operands, every other node is compiled as it is
PostOrder(node, id, env) ==
    IF node.type = "BinaryExpression"
        THEN LET l == PostOrder(node.left, id, env)
                 r == PostOrder(node.right, id, l.env)
             IN R(l.lines \o r.lines \o <<OperatorInstruction(node.operator, id)>>, r.env)
    ELSE compileExpression(node, id, env)

RECURSIVE UnsupportedOperators(_)
\* how many binary nodes of the tree carry an operator outside the table
UnsupportedOperators(node) ==
    IF node.type = "BinaryExpression"
        THEN UnsupportedOperators(node.left) + UnsupportedOperators(node.right)
                 + (IF TableOpcode(node.operator) = "" THEN 1 ELSE 0)
    ELSE 0

\* the diagnostics of the last result that carry the statement id
DiagnosticsOf(id) == SelectSeq(result.diagnostics, LAMBDA d : d.statementId = id)

\* C22: a binary expression emits its left operand, its right operand and then
\* one instruction, the opcode of the table or UNSUPPORTED(BinaryOp(op)) with one
\* diagnostic; nested binary expressions come out in post-order.
C22_BinaryPostOrder ==
    outcome = "returned" =>
        \A i \in 1..Len(statements) :
            (statements[i].node.type = "ExpressionStatement"
                /\ statements[i].node.expression.type = "BinaryExpression") =>
                LET bin == statements[i].node.expression
                    id == statements[i].id
                    own == LinesOf(id)
                    code == SubSeq(own, 1, Len(own) - 1)
                    l == compileExpression(bin.left, id, [EnvBefore(i) EXCEPT !.diagnostics = <<>>])
                    r == compileExpression(bin.right, id, l.env)
                IN /\ code = instructions(l.lines \o r.lines \o <<OperatorInstruction(bin.operator, id)>>)
                   /\ code = instructions(PostOrder(bin, id, EnvBefore(i)).lines)
                   /\ Len(DiagnosticsOf(id)) =
                          Len(r.env.diagnostics) + (IF TableOpcode(bin.operator) = "" THEN 1 ELSE 0)
                   /\ Len(DiagnosticsOf(id)) = UnsupportedOperators(bin)

\* 1 + 2 * 3 and (1 ** x) + 1 have been compiled: a nested operand, and an
\* operator outside the table below one of the table
C22_Witness ==
    /\ outcome = "returned"
    /\ Len(statements) = 1
    /\ statements[1].node.type = "ExpressionStatement"
    /\ statements[1].node.expression.type = "BinaryExpression"
    /\ \/ /\ statements[1].node.expression.right.type = "BinaryExpression"
          /\ {"MUL", "ADD"} \subseteq OpsIn(result.lines)
       \/ /\ statements[1].node.expression.left.type = "BinaryExpression"
          /\ {"UNSUPPORTED", "ADD"} \subseteq OpsIn(result.lines)
          /\ Len(result.diagnostics) = 1

----------------------------------------------------------------------------
(* C23: array literals *)

RECURSIVE ElementsInOrder(_, _, _, _)
\* the instructions of the elements from number k on: PUSH_UNDEFINED for a hole,
\* the argument and SPREAD for a spread element, the element itself otherwise
ElementsInOrder(elements, k, id, env) ==
    IF k > Len(elements) THEN <<>>
    ELSE IF elements[k].type = "null"
        THEN <<emit(id, "PUSH_UNDEFINED", <<>>)>> \o ElementsInOrder(elements, k + 1, id, env)
    ELSE LET e == compileExpression(IF elements[k].type = "SpreadElement" THEN elements[k].argument
                                    ELSE elements[k], id, env)
         IN e.lines
                \o (IF elements[k].type = "SpreadElement" THEN <<emit(id, "SPREAD", <<>>)>> ELSE <<>>)
                \o ElementsInOrder(elements, k + 1, id, e.env)

----------------------------------------------------------------------------
(* C24: template literals *)

\* a segment is pushed when it is not empty, and when it is the first or the last
SegmentPushed(template, k) ==
    Len(template.quasis[k]) > 0 \/ k = 1 \/ k = Len(template.quasis)

RECURSIVE TemplateInOrder(_, _, _, _)
\* the pushes of a template literal from segment k on: the segment, then the
\* expression that follows it
TemplateInOrder(template, k, id, env) ==
    IF k > Len(template.quasis) THEN <<>>
    ELSE LET segment == IF SegmentPushed(template, k)
                            THEN <<emit(id, "PUSH_CONST", <<"\"" \o template.quasis[k] \o "\"">>)>>
                        ELSE <<>>
         IN IF k <= Len(template.expressions)
                THEN LET e == compileExpression(template.expressions[k], id, env)
                     IN segment \o e.lines \o <<emit(id, "TO_STRING", <<>>)>>
                            \o TemplateInOrder(template, k + 1, id, e.env)
            ELSE segment \o TemplateInOrder(template, k + 1, id, env)

\* the number of values a template literal pushes
ValuesPushed(template) ==
    Cardinality({k \in 1..Len(template.quasis) : SegmentPushed(template, k)})
        + Len(template.expressions)

\* C24: a template literal pushes its segments and expressions in source order,
\* empty first and last segments included; a CONCAT_STRINGS that follows counts
\* exactly the values pushed, and one value remains.
C24_ConcatCountsThePushes ==
    outcome = "returned" =>
        \A i \in 1..Len(statements) :
            (statements[i].node.type = "ExpressionStatement"
                /\ statements[i].node.expression.type = "TemplateLiteral") =>
                LET template == statements[i].node.expression
                    id == statements[i].id
                    own == LinesOf(id)
                    code == SubSeq(own, 1, Len(own) - 1)
                    pushes == instructions(TemplateInOrder(template, 1, id, EnvBefore(i)))
                IN /\ Len(code) >= Len(pushes)
                   /\ SubSeq(code, 1, Len(pushes)) = pushes
                   /\ "CONCAT_STRINGS" \in OpsIn(code) =>
                          /\ Len(code) = Len(pushes) + 1
                          /\ Last(code).op = "CONCAT_STRINGS"
                          /\ Last(code).args = <<ToString(ValuesPushed(template))>>
                   /\ ExitHeights(code) = {1}

----------------------------------------------------------------------------
(* C25: object literals *)

\* the properties the claim has diagnosed: computed keys, methods, spreads
DiagnosedProperty(prop) ==
    \/ prop.type \in {"SpreadElement", "ObjectMethod"}
    \/ prop.type = "ObjectProperty" /\ prop.computed

\* opcode and arguments of each instruction, whatever the tag of an UNSUPPORTED
OpsAndArgs(lines) ==
    [k \in 1..Len(lines) |->
        IF lines[k].op = "UNSUPPORTED" THEN <<"UNSUPPORTED">> ELSE <<lines[k].op, lines[k].args>>]

RECURSIVE PropertiesInOrder(_, _, _, _)
\* the instructions of the properties from number k on: one UNSUPPORTED for a
\* diagnosed property, the value's instructions for any other
PropertiesInOrder(properties, k, id, env) ==
    IF k > Len(properties) THEN <<>>
    ELSE IF DiagnosedProperty(properties[k])
        THEN <<emit(id, "UNSUPPORTED", <<>>)>> \o PropertiesInOrder(properties, k + 1, id, env)
    ELSE LET v == compileExpression(properties[k].value, id, env)
         IN v.lines \o PropertiesInOrder(properties, k + 1, id, v.env)

\* C25: every property with a computed key, every method and every spread gives
\* one UNSUPPORTED and one diagnostic; every other property has its value emitted
\* and is counted by CREATE_OBJECT; siblings of a diagnosed property compile.
C25_EveryPropertyAccountedFor ==
    outcome = "returned" =>
        \A i \in 1..Len(statements) :
            (statements[i].node.type = "ExpressionStatement"
                /\ statements[i].node.expression.type = "ObjectExpression") =>
                LET properties == statements[i].node.expression.properties
                    id == statements[i].id
                    own == LinesOf(id)
                    code == SubSeq(own, 1, Len(own) - 1)
                    diagnosed == {k \in 1..Len(properties) : DiagnosedProperty(properties[k])}
                    counted == Len(properties) - Cardinality(diagnosed)
                    values == PropertiesInOrder(properties, 1, id, EnvBefore(i))
                IN /\ \/ OpsAndArgs(code) =
                             OpsAndArgs(values \o <<emit(id, "CREATE_OBJECT", <<ToString(counted)>>)>>)
                      \/ counted = 0 /\ OpsAndArgs(code) = OpsAndArgs(values)
                   /\ Len(DiagnosticsOf(id)) = Cardinality(diagnosed)

----------------------------------------------------------------------------
(* C26: function declarations *)

\* PARAM(name, position) for an identifier, UNSUPPORTED(ComplexParameter) for
\* anything else; positions count from 0 over all parameters
ParamsInOrder(params, id) ==
    [k \in 1..Len(params) |->
        IF params[k].type = "Identifier" THEN emit(id, "PARAM", <<params[k].name, ToString(k - 1)>>)
        ELSE emit(id, "UNSUPPORTED", <<"ComplexParameter">>)]

ComplexParams(params) == {k \in 1..Len(params) : params[k].type # "Identifier"}

\* C26: a function declaration emits DECLARE_FUNC(name, number of parameters),
\* LABEL(start), one PARAM(name, position) or one UNSUPPORTED(ComplexParameter)
\* with a diagnostic per parameter, the body, one RETURN_UNDEFINED whatever the
\* body ends with, and LABEL(end); the two labels differ.
C26_FunctionShape ==
    outcome = "returned" =>
        \A i \in 1..Len(statements) :
            statements[i].node.type = "FunctionDeclaration" =>
                LET func == statements[i].node
                    id == statements[i].id
                    own == LinesOf(id)
                    env == [EnvBefore(i) EXCEPT !.diagnostics = <<>>]
                    start == "func_" \o func.id.name \o "_" \o ToString(env.labelCounter)
                    end == "func_" \o func.id.name \o "_end_" \o ToString(env.labelCounter + 1)
                    body == compileStatements(func.body.body, id, Skip(env, 2))
                IN /\ own = instructions(
                             <<emit(id, "DECLARE_FUNC", <<func.id.name, ToString(Len(func.params))>>),
                               emit(id, "LABEL", <<start>>)>>
                                 \o ParamsInOrder(func.params, id)
                                 \o body.lines
                                 \o <<emit(id, "RETURN_UNDEFINED", <<>>), emit(id, "LABEL", <<end>>)>>)
                   /\ start # end
                   /\ Len(DiagnosticsOf(id)) =
                          Cardinality(ComplexParams(func.params)) + Len(body.env.diagnostics)

\* a function with a destructuring parameter before an identifier parameter and
\* a body that ends in a return has been compiled
C26_Witness ==
    /\ outcome = "returned"
    /\ Len(statements) = 1
    /\ statements[1].node.type = "FunctionDeclaration"
    /\ Len(statements[1].node.params) = 2
    /\ ComplexParams(statements[1].node.params) = {1}
    /\ CountOp(result.lines, "RETURN_UNDEFINED") = 2
    /\ \E k \in 1..Len(result.lines) :
           result.lines[k].op = "PARAM" /\ result.lines[k].args = <<"b", "1">>

----------------------------------------------------------------------------
(* C27: for-in and for-of *)

\* the name of the loop variable of a loop over an identifier
LoopVariable(node) ==
    IF node.left.type = "VariableDeclaration" THEN node.left.declarations[1].id.name
    ELSE node.left.name

\* what the claim says a loop over an identifier, compiled in state env, emits
LoopShape(node, id, env) ==
    LET in == node.type = "ForInStatement"
        start == (IF in THEN "forin_start_" ELSE "forof_start_") \o ToString(env.labelCounter)
        end == (IF in THEN "forin_end_" ELSE "forof_end_") \o ToString(env.labelCounter + 1)
        right == compileExpression(node.right, id, Skip(env, 2))
        body == IF node.body.type = "BlockStatement"
                    THEN compileStatements(node.body.body, id, right.env)
                ELSE compileStatement(node.body, id, right.env)
    IN (IF node.left.type = "VariableDeclaration"
            THEN <<emit(id, "DECLARE_VAR", <<LoopVariable(node)>>)>>
        ELSE <<>>)
           \o right.lines
           \o <<emit(id, IF in THEN "GET_KEYS" ELSE "GET_ITERATOR", <<>>),
                emit(id, "LABEL", <<start>>),
                emit(id, "ITER_HAS_NEXT", <<>>),
                emit(id, "JUMP_IF_FALSE", <<end>>),
                emit(id, "ITER_NEXT", <<LoopVariable(node)>>)>>
           \o body.lines
           \o <<emit(id, "JUMP", <<start>>), emit(id, "LABEL", <<end>>)>>

\* C27: a for-in or for-of loop over a declared or an existing identifier emits
\* DECLARE_VAR (for a declaration only), the iterated expression, GET_KEYS or
\* GET_ITERATOR, LABEL(start), ITER_HAS_NEXT, JUMP_IF_FALSE(end), ITER_NEXT(name),
\* the body, JUMP(start), LABEL(end); a loop over anything else emits one
\* UNSUPPORTED with one diagnostic and nothing else.
C27_LoopShape ==
    outcome = "returned" =>
        \A i \in 1..Len(statements) :
            statements[i].node.type \in {"ForInStatement", "ForOfStatement"} =>
                LET node == statements[i].node
                    id == statements[i].id
                    own == LinesOf(id)
                IN IF IdentifierLoop(node)
                       THEN own = instructions(LoopShape(node, id, EnvBefore(i)))
                   ELSE /\ Len(own) = 1
                        /\ own[1].op = "UNSUPPORTED"
                        /\ Len(DiagnosticsOf(id)) = 1

\* a for-in loop over an existing identifier whose body is a for-of loop has been compiled
C27_Witness ==
    /\ outcome = "returned"
    /\ Len(statements) = 1
    /\ statements[1].node.type = "ForInStatement"
    /\ statements[1].node.left.type = "Identifier"
    /\ {"GET_KEYS", "GET_ITERATOR"} \subseteq OpsIn(result.lines)
    /\ "DECLARE_VAR" \notin OpsIn(result.lines)

----------------------------------------------------------------------------
(* C28: imports and exports *)

\* the one instruction of an import specifier
ImportInstruction(spec, sourcePath, id) ==
    CASE spec.type = "ImportDefaultSpecifier" -> emit(id, "IMPORT_DEFAULT", <<spec.local.name, sourcePath>>)
      [] spec.type = "ImportNamespaceSpecifier" -> emit(id, "IMPORT_NAMESPACE", <<spec.local.name, sourcePath>>)
      [] spec.type = "ImportSpecifier" ->
            IF spec.imported.name = spec.local.name THEN emit(id, "IMPORT", <<spec.local.name, sourcePath>>)
            ELSE emit(id, "IMPORT_AS", <<spec.imported.name, spec.local.name, sourcePath>>)

\* the one instruction of an export specifier
ExportInstruction(spec, id) ==
    IF NameOf(spec.local) = NameOf(spec.exported) THEN emit(id, "EXPORT", <<NameOf(spec.local)>>)
    ELSE emit(id, "EXPORT_AS", <<NameOf(spec.local), NameOf(spec.exported)>>)

\* the identifiers a declaration declares, in declaration order
DeclaredIdentifiers(declaration) ==
    IF declaration.type = "VariableDeclaration"
        THEN LET ids == SelectSeq(declaration.declarations, LAMBDA d : d.id.type = "Identifier")
             IN [k \in 1..Len(ids) |-> ids[k].id.name]
    ELSE IF declaration.type = "FunctionDeclaration" THEN <<declaration.id.name>>
    ELSE <<>>

\* the run compile() returns for a statement that emits these lines
Run(lines, id) == instructions(IF lines = <<>> THEN <<emit(id, "NOOP", <<>>)>> ELSE lines)

\* C28: an import emits one instruction per specifier, in order: IMPORT,
\* IMPORT_AS, IMPORT_DEFAULT or IMPORT_NAMESPACE; an export of a declaration emits
\* the declaration and one EXPORT per declared identifier; an export of a
\* specifier list emits EXPORT or EXPORT_AS per specifier, in order.
C28_OneInstructionPerSpecifier ==
    outcome # "none" =>
        \A i \in 1..Len(statements) :
            LET node == statements[i].node
                id == statements[i].id
                own == LinesOf(id)
            IN /\ node.type = "ImportDeclaration" =>
                      /\ outcome = "returned"
                      /\ own = Run([k \in 1..Len(node.specifiers) |->
                                       ImportInstruction(node.specifiers[k], node.source, id)], id)
               /\ (node.type = "ExportNamedDeclaration" /\ node.declaration.type # "null") =>
                      LET names == DeclaredIdentifiers(node.declaration)
                      IN /\ outcome = "returned"
                         /\ own = Run(compileStatement(node.declaration, id, EnvBefore(i)).lines
                                          \o [k \in 1..Len(names) |-> emit(id, "EXPORT", <<names[k]>>)], id)
               /\ (node.type = "ExportNamedDeclaration" /\ node.declaration.type = "null") =>
                      /\ outcome = "returned"
                      /\ own = Run([k \in 1..Len(node.specifiers) |->
                                       ExportInstruction(node.specifiers[k], id)], id)

----------------------------------------------------------------------------
(* C29: the label counter across compile() calls *)

\* the opcodes whose first argument is a label
LabelOps == JumpOps \cup {"LABEL"}

RECURSIVE LastUnderscore(_, _)
\* the position of the last "_" of s at or before position k, 0 when there is none
LastUnderscore(s, k) ==
    IF k = 0 THEN 0
    ELSE IF SubSeq(s, k, k) = "_" THEN k
    ELSE LastUnderscore(s, k - 1)

Digit(c) ==
    CASE c = "0" -> 0 [] c = "1" -> 1 [] c = "2" -> 2 [] c = "3" -> 3 [] c = "4" -> 4
      [] c = "5" -> 5 [] c = "6" -> 6 [] c = "7" -> 7 [] c = "8" -> 8 [] c = "9" -> 9

RECURSIVE ParseNat(_, _)
\* the number written by the first k characters of the decimal numeral s
ParseNat(s, k) ==
    IF k = 0 THEN 0 ELSE 10 * ParseNat(s, k - 1) + Digit(SubSeq(s, k, k))

\* the prefix of a label, up to and including the last "_", and its numeric suffix
PrefixOf(label) == SubSeq(label, 1, LastUnderscore(label, Len(label)))
SuffixOf(label) ==
    LET digits == SubSeq(label, LastUnderscore(label, Len(label)) + 1, Len(label))
    IN ParseNat(digits, Len(digits))

\* the label with its suffix moved up by d
ShiftLabel(label, d) == PrefixOf(label) \o ToString(SuffixOf(label) + d)

\* the instructions with every label suffix moved up by d
Shift(lines, d) ==
    [k \in 1..Len(lines) |->
        IF lines[k].op \in LabelOps
            THEN emit(lines[k].statementId, lines[k].op, <<ShiftLabel(lines[k].args[1], d)>>)
        ELSE emit(lines[k].statementId, lines[k].op, lines[k].args)]

\* the label names a result defines
LabelsOf(res) == {res.lines[k].args[1] : k \in {j \in 1..Len(res.lines) : res.lines[j].op = "LABEL"}}

\* a compile() call has just returned and the counter was not reset before it
CompiledWithoutReset ==
    /\ fresh' = [labelCounter |-> FALSE, breakTargetStack |-> FALSE]
    /\ ~fresh.labelCounter
    /\ outcome' = "returned"

\* the result is that of compile(S) with the counter at 0, every label suffix
\* moved up by the counter at entry; the suffixes of the labels are distinct
\* numbers from the counter at entry up to the counter at return, which stays
\* until the next reset
ShiftedByEntryCounter ==
    outcome = "returned" =>
        LET zero == compileBlocks(statements, Env(<<>>, 0, <<>>, FALSE))
            defined == {k \in 1..Len(result.lines) : result.lines[k].op = "LABEL"}
        IN /\ result.lines = instructions(Shift(zero.lines, entry.labelCounter))
           /\ result.diagnostics = zero.env.diagnostics
           /\ ~fresh.labelCounter => labelCounter = entry.labelCounter + zero.env.labelCounter
           /\ \A k \in defined :
                  /\ SuffixOf(result.lines[k].args[1]) \in
                         entry.labelCounter..(entry.labelCounter + zero.env.labelCounter - 1)
                  /\ \A j \in defined :
                         SuffixOf(result.lines[j].args[1]) = SuffixOf(result.lines[k].args[1]) => j = k

\* the counter never goes back over a call, and the call defines no label name
\* that the call before it defined
NoLabelReused ==
    CompiledWithoutReset =>
        /\ labelCounter' >= labelCounter
        /\ outcome = "returned" => LabelsOf(result') \cap LabelsOf(result) = {}

\* C29: without a reset, compile(S) depends only on S and the counter at entry:
\* its output is the output from counter 0 with every label suffix moved up by
\* the counter at entry, the suffixes grow with the counter, and no label name
\* of an earlier call comes back.
C29_ResultDependsOnCounterOnly == []ShiftedByEntryCounter /\ [][NoLabelReused]_vars

\* a second call without a reset in between has compiled a program with
\* several labels, starting from a counter above 0
C29_Witness ==
    /\ outcome = "returned"
    /\ ~entry.fresh
    /\ entry.labelCounter > 0
    /\ labelCounter >= entry.labelCounter + 2
    /\ CountOp(result.lines, "LABEL") >= 2

----------------------------------------------------------------------------
(* C30: the visualizer keeps the last valid statements *)

\* the error shown is there exactly when the text in the editor does not parse
ErrorShownIffLatestEditFailed ==
    (parseError(parseStatus) # NULL) <=> ~source.parses

\* a render shows and compiles the statements of the text when it parses, and
\* leaves the statements and the bytecode of the render before, which the parse
\* status retains, when it does not
ShowsLastValidStatements ==
    /\ source'.parses =>
           /\ outcome' = "returned"
           /\ statements' = extractStatementBlocks(source'.body)
           /\ result'.lines = compile(statements', labelCounter, breakTargetStack).lines
    /\ ~source'.parses =>
           /\ statements' = statements
           /\ result' = result
           /\ outcome' = outcome
           /\ parseStatus'.lastValid # NULL
           /\ parseStatus'.lastValid.statements = statements

\* C30: after any sequence of edits the statements shown and compiled are those
\* of the latest edit that parsed, or of the default source; the parse error is
\* non-null exactly when the latest edit failed to parse; a failed parse keeps
\* the retained statements.
C30_LastValidStatementsAreShown ==
    []ErrorShownIffLatestEditFailed /\ [][ShowsLastValidStatements]_vars

====
